---- MODULE Spec2Model ----
(***************************************************************************)
(* Model of the emergency-directions generator: route segmentation         *)
(* (processing/route.ts in its three versions), the geometry helpers of    *)
(* utils/geo.ts and the POI label placement of rendering/svg.ts.           *)
(*                                                                         *)
(* Numbers.  The model uses integers only, so every quantity is kept      *)
(* exact in a fixed unit:                                                  *)
(*   - a coordinate is <<lon, lat>> in units of u = 0.00005 degrees; the   *)
(*     modelled routes lie on multiples of 20 u (0.001 degrees), which     *)
(*     makes the 35 % padding of calculateBounds an exact integer;         *)
(*   - a distance is in units of the arc length of u (about 5.56 m); the   *)
(*     haversine formula is modelled by the planar small-angle distance    *)
(*     at the equator, rounded down;                                       *)
(*   - a duration is in units of 1/67 s (distance / 1.34 = 50/67 * d).     *)
(* JavaScript's undefined is the empty tuple <<>> wherever the defined     *)
(* value is a tuple (startCoord, endCoord, stepRange).                     *)
(***************************************************************************)
EXTENDS Integers, Sequences, FiniteSets, Bags, TLC

(***************************************************************************)
(* Bounds of the model.                                                    *)
(***************************************************************************)
MaxRouteLen == 4
MaxSteps == 3
MaxSegments == 3
MaxStepsPerSegment == 2

(***************************************************************************)
(* Program constants.                                                      *)
(***************************************************************************)
\* MAP_CONFIG.boundsPadding = 0.35, as a percentage
boundsPadding == 35

VARIABLES
    coordinates,   \* route.geometry.coordinates: the route handed to segmentRoute
    steps,         \* the steps argument: [present |-> BOOLEAN, list |-> Seq(step)]
    op,            \* which segmentRoute version / policy has run ("idle": none yet)
    param,         \* the policy's numeric parameter of that run
    outcome,       \* "none" | "returned" | "threw": how the call ended
    segments,      \* the RouteSegment[] it returned
    segment,       \* generateSegmentMapSvg: the segment being rendered
    pois,          \* generateSegmentMapSvg: the POI candidates, in priority order
    poiPc,         \* generatePOIMarkers: "idle" | "loop" | "done"
    nearbyPois,    \* generatePOIMarkers: indices (into pois) that passed the filter
    poiK,          \* generatePOIMarkers: position of the for loop in nearbyPois
    markers,       \* generatePOIMarkers: the markers pushed so far
    usedLabelPositions, \* generatePOIMarkers: the label positions taken so far
    call,          \* a geometry helper's invocation: [fn |-> name, ...arguments]
    result,        \* the value that invocation returned
    clock,         \* Date.now(), in ms
    lastRequestTime,  \* api/nominatim.ts: the module variable of that name
    requestTimes,  \* the times at which Nominatim requests were issued, in order
    requestKeys,   \* how many requests were issued for each coordinate (a bag)
    nomSegments,   \* fetchSegmentLocations: the segments argument
    nomPc,         \* fetchSegmentLocations: "off" | "idle" | "batch" | "done"
    nomI,          \* fetchSegmentLocations: the batch loop's i
    nomTasks,      \* fetchSegmentLocations: the async callbacks of the current batch
    results,       \* fetchSegmentLocations: the results Map, key -> response
    locations,     \* fetchSegmentLocations: the returned SegmentLocation[]
    segmentBounds, \* fetchPOIsForSegments: the segmentBounds argument
    ovpPc,         \* fetchPOIsForSegments: "off" | "idle" | "batch" | "pause" | "done"
    ovpI,          \* fetchPOIsForSegments: the batch loop's i
    batchPromises, \* fetchPOIsForSegments: the promises of the current batch
    allPOIs,       \* fetchPOIsForSegments: the lists pushed so far
    ovpLog,        \* the console log "Segment n: k POIs found", as {[segmentIdx, pois]}
    grouping,      \* groupStepsBySegment: [fn |-> version, outcome, segmentSteps]
    bySteps,       \* segmentBySteps: the while loop's locals and its position
    osrm           \* fetchWalkingRoute: position, requests sent, answers, outcome

segVars == <<coordinates, steps, op, param, outcome, segments>>

poiVars == <<segment, pois, poiPc, nearbyPois, poiK, markers, usedLabelPositions>>

geoVars == <<call, result>>

nomVars == <<clock, lastRequestTime, requestTimes, requestKeys, nomSegments, nomPc, nomI,
            nomTasks, results, locations>>

vars == <<coordinates, steps, op, param, outcome, segments,
          segment, pois, poiPc, nearbyPois, poiK, markers, usedLabelPositions,
          call, result,
          clock, lastRequestTime, requestTimes, requestKeys, nomSegments, nomPc, nomI,
          nomTasks, results, locations,
          segmentBounds, ovpPc, ovpI, batchPromises, allPOIs, ovpLog,
          grouping, bySteps, osrm>>

grpVars == <<grouping>>

loopVars == <<bySteps>>

osrmVars == <<osrm>>

ovpVars == <<segmentBounds, ovpPc, ovpI, batchPromises, allPOIs, ovpLog>>

(***************************************************************************)
(* Arithmetic and array helpers (JavaScript semantics).                    *)
(***************************************************************************)
Min(a, b) == IF a < b THEN a ELSE b

Max(a, b) == IF a > b THEN a ELSE b

Abs(a) == IF a < 0 THEN -a ELSE a

SetMin(S) == CHOOSE x \in S : \A y \in S : x <= y

SetMax(S) == CHOOSE x \in S : \A y \in S : x >= y

\* floor(sqrt(n)) by bisection: lo * lo <= n < hi * hi
RECURSIVE ISqrtBetween(_, _, _)
ISqrtBetween(n, lo, hi) ==
    IF hi - lo <= 1 THEN lo
    ELSE LET mid == (lo + hi) \div 2
         IN  IF mid * mid <= n THEN ISqrtBetween(n, mid, hi) ELSE ISqrtBetween(n, lo, mid)

ISqrt(n) == ISqrtBetween(n, 0, Min(n + 1, 46341))

\* Array.prototype.slice(a, b) for 0 <= a: the elements with 0-based index a..b-1
Slice(s, a, b) ==
    LET e == Min(b, Len(s))
    IN  IF a >= e THEN <<>> ELSE SubSeq(s, a + 1, e)

\* s[i] with a 0-based index; undefined (<<>>) outside the array
At(s, i) == IF i >= 0 /\ i < Len(s) THEN s[i + 1] ELSE <<>>

RECURSIVE SumSeq(_)
SumSeq(s) == IF Len(s) = 0 THEN 0 ELSE s[1] + SumSeq(Tail(s))

(***************************************************************************)
(* utils/geo.ts                                                            *)
(***************************************************************************)
haversineDistance(lat1, lon1, lat2, lon2) ==
    ISqrt((lat2 - lat1) * (lat2 - lat1) + (lon2 - lon1) * (lon2 - lon1))

RECURSIVE calculatePathDistanceFrom(_, _)
calculatePathDistanceFrom(coords, i) ==
    IF i >= Len(coords) THEN 0
    ELSE haversineDistance(coords[i][2], coords[i][1], coords[i + 1][2], coords[i + 1][1])
         + calculatePathDistanceFrom(coords, i + 1)

calculatePathDistance(coords) == calculatePathDistanceFrom(coords, 1)

\* calculateBounds with the padding applied inwards (a sign slip)
calculateBoundsInwardPad(coords) ==
    IF Len(coords) = 0
    THEN [finite |-> FALSE, minLat |-> 0, maxLat |-> 0, minLon |-> 0, maxLon |-> 0,
          centerLat |-> 0, centerLon |-> 0]
    ELSE LET lats == {coords[i][2] : i \in DOMAIN coords}
             lons == {coords[i][1] : i \in DOMAIN coords}
             latPad == ((SetMax(lats) - SetMin(lats)) * boundsPadding) \div 100
             lonPad == ((SetMax(lons) - SetMin(lons)) * boundsPadding) \div 100
         IN  [finite |-> TRUE,
              minLat |-> SetMin(lats) + latPad, maxLat |-> SetMax(lats) - latPad,
              minLon |-> SetMin(lons) + lonPad, maxLon |-> SetMax(lons) - lonPad,
              centerLat |-> (SetMin(lats) + SetMax(lats)) \div 2,
              centerLon |-> (SetMin(lons) + SetMax(lons)) \div 2]

\* With no coordinate the extremes stay +/-Infinity and the centre is NaN:
\* finite = FALSE stands for that value (its number fields are then unused).
calculateBounds(coords) ==
    IF Len(coords) = 0
    THEN [finite |-> FALSE, minLat |-> 0, maxLat |-> 0, minLon |-> 0, maxLon |-> 0,
          centerLat |-> 0, centerLon |-> 0]
    ELSE LET lats == {coords[i][2] : i \in DOMAIN coords}
             lons == {coords[i][1] : i \in DOMAIN coords}
             minLat == SetMin(lats)
             maxLat == SetMax(lats)
             minLon == SetMin(lons)
             maxLon == SetMax(lons)
             latPad == ((maxLat - minLat) * boundsPadding) \div 100
             lonPad == ((maxLon - minLon) * boundsPadding) \div 100
         IN  [finite |-> TRUE,
              minLat |-> minLat - latPad, maxLat |-> maxLat + latPad,
              minLon |-> minLon - lonPad, maxLon |-> maxLon + lonPad,
              centerLat |-> (minLat + maxLat) \div 2,
              centerLon |-> (minLon + maxLon) \div 2]

\* utils/format.ts: distance / walkingSpeedMps (1.34), in units of 1/67 s
calculateWalkingDuration(distance) == distance * 50

(***************************************************************************)
(* processing/route.ts, distance/count version (segmentByDistance,         *)
(* segmentByCoordinates)                                                   *)
(***************************************************************************)
RouteSegment(index, coords, distance, stepRange, stepIndices) ==
    [index |-> index,
     coordinates |-> coords,
     startCoord |-> At(coords, 0),
     endCoord |-> At(coords, Len(coords) - 1),
     bounds |-> calculateBounds(coords),
     distance |-> distance,
     duration |-> calculateWalkingDuration(distance),
     stepRange |-> stepRange,
     stepIndices |-> stepIndices]

RECURSIVE findClosestCoordinateFrom(_, _, _, _, _)
findClosestCoordinateFrom(coords, location, i, bestIdx, bestDist) ==
    IF i >= Len(coords) THEN bestIdx
    ELSE LET c == coords[i + 1]
             dist == (c[1] - location[1]) * (c[1] - location[1])
                     + (c[2] - location[2]) * (c[2] - location[2])
         IN  \* bestDist = -1 stands for Infinity
             IF bestDist = -1 \/ dist < bestDist
             THEN findClosestCoordinateFrom(coords, location, i + 1, i, dist)
             ELSE findClosestCoordinateFrom(coords, location, i + 1, bestIdx, bestDist)

findClosestCoordinate(coords, location) ==
    findClosestCoordinateFrom(coords, location, 0, 0, -1)

\* stepToCoordIndex: empty when steps is undefined
stepToCoordIndex(coords, stps) ==
    IF stps.present
    THEN [s \in 1..Len(stps.list) |-> findClosestCoordinate(coords, stps.list[s].location)]
    ELSE <<>>

\* the step range of the segment covering coordinate indices startIdx..endIdx
distanceStepRange(stps, map, startIdx, endIdx) ==
    IF stps.present /\ Len(map) > 0
    THEN LET inSeg == {s \in 1..Len(map) : map[s] >= startIdx /\ map[s] <= endIdx}
         IN  IF inSeg = {} THEN <<>> ELSE <<SetMin(inSeg) - 1, SetMax(inSeg) - 1>>
    ELSE <<>>

\* the candidate segment's coordinates when the cut falls at index i
segmentSliceMissingCut(coords, startIdx, i) == Slice(coords, startIdx, i)

segmentSlice(coords, startIdx, i) == Slice(coords, startIdx, i + 1)

\* where the next segment starts after a cut at index i
nextSegmentStartAfterCut(i) == i + 1

nextSegmentStart(i) == i

RECURSIVE segmentByDistanceFrom(_, _, _, _, _, _, _, _)
segmentByDistanceFrom(coords, targetDistance, stps, map, i, segs, segmentStartIdx, acc) ==
    IF i >= Len(coords) THEN segs
    ELSE LET segDist == haversineDistance(coords[i][2], coords[i][1],
                                          coords[i + 1][2], coords[i + 1][1])
             accumulatedDistance == acc + segDist
             isLastPoint == (i = Len(coords) - 1)
             reachedTarget == accumulatedDistance >= targetDistance
             segmentCoords == segmentSlice(coords, segmentStartIdx, i)
             pushed ==
                 IF Len(segmentCoords) >= 2
                 THEN Append(segs,
                        RouteSegment(Len(segs) + 1, segmentCoords,
                                     calculatePathDistance(segmentCoords),
                                     distanceStepRange(stps, map, segmentStartIdx, i),
                                     <<>>))
                 ELSE segs
         IN  IF isLastPoint \/ reachedTarget
             THEN segmentByDistanceFrom(coords, targetDistance, stps, map, i + 1,
                                        pushed, nextSegmentStart(i), 0)
             ELSE segmentByDistanceFrom(coords, targetDistance, stps, map, i + 1,
                                        segs, segmentStartIdx, accumulatedDistance)

segmentByDistance(coords, targetDistance, stps) ==
    segmentByDistanceFrom(coords, targetDistance, stps, stepToCoordIndex(coords, stps),
                          1, <<>>, 0, 0)

\* whether segmentByCoordinates assigns step ranges
hasStepsTruthy(stps) == stps.present

hasSteps(stps) == stps.present /\ Len(stps.list) > 0

\* the number of steps given to segment i (0-based)
segStepCountNoRemainder(stepsPerSegment, extraSteps, i) == stepsPerSegment

segStepCount(stepsPerSegment, extraSteps, i) ==
    stepsPerSegment + (IF i < extraSteps THEN 1 ELSE 0)

RECURSIVE segmentByCoordinatesFrom(_, _, _, _, _, _)
segmentByCoordinatesFrom(coords, numSegments, stps, i, stepIdx, segs) ==
    IF i >= numSegments THEN segs
    ELSE LET totalPoints == Len(coords)
             pointsPerSegment == totalPoints \div numSegments
             nSteps == IF stps.present THEN Len(stps.list) ELSE 0
             stepsPerSegment == IF stps.present THEN nSteps \div numSegments ELSE 0
             extraSteps == IF stps.present THEN nSteps % numSegments ELSE 0
             startIdx == i * pointsPerSegment
             endIdx == IF i = numSegments - 1 THEN totalPoints - 1
                       ELSE (i + 1) * pointsPerSegment
             segmentCoords == Slice(coords, startIdx, endIdx + 1)
             count == segStepCount(stepsPerSegment, extraSteps, i)
             stepRange == IF hasSteps(stps)
                          THEN <<stepIdx, Min(stepIdx + count - 1, nSteps - 1)>>
                          ELSE <<>>
             nextStepIdx == IF hasSteps(stps) THEN stepIdx + count ELSE stepIdx
         IN  segmentByCoordinatesFrom(coords, numSegments, stps, i + 1, nextStepIdx,
                 Append(segs, RouteSegment(i + 1, segmentCoords,
                                           calculatePathDistance(segmentCoords),
                                           stepRange, <<>>)))

segmentByCoordinates(coords, numSegments, stps) ==
    segmentByCoordinatesFrom(coords, numSegments, stps, 0, 0, <<>>)

(***************************************************************************)
(* processing/route.ts, first version: count-based segmentRoute without    *)
(* steps                                                                   *)
(***************************************************************************)
RECURSIVE segmentRouteCountFrom(_, _, _, _)
segmentRouteCountFrom(coords, numSegments, i, segs) ==
    IF i >= numSegments THEN segs
    ELSE LET totalPoints == Len(coords)
             pointsPerSegment == totalPoints \div numSegments
             startIdx == i * pointsPerSegment
             endIdx == IF i = numSegments - 1 THEN totalPoints - 1
                       ELSE (i + 1) * pointsPerSegment
             segmentCoords == Slice(coords, startIdx, endIdx + 1)
         IN  segmentRouteCountFrom(coords, numSegments, i + 1,
                 Append(segs, RouteSegment(i + 1, segmentCoords,
                                           calculatePathDistance(segmentCoords),
                                           <<>>, <<>>)))

segmentRouteCount(coords, numSegments) ==
    segmentRouteCountFrom(coords, numSegments, 0, <<>>)

(***************************************************************************)
(* processing/route.ts, step-grouped version (segmentRoute, segmentBySteps)*)
(***************************************************************************)
\* the coordinates a step contributes: its geometry, or else its location
stepCoordinates(step) ==
    IF Len(step.geometry) > 0 THEN step.geometry ELSE <<step.location>>

RECURSIVE concatStepCoordinates(_)
concatStepCoordinates(segmentSteps) ==
    IF Len(segmentSteps) = 0 THEN <<>>
    ELSE stepCoordinates(segmentSteps[1]) \o concatStepCoordinates(Tail(segmentSteps))

\* remove duplicate consecutive coordinates
RECURSIVE uniqueConsecutiveFrom(_, _, _)
uniqueConsecutiveFrom(coords, j, acc) ==
    IF j > Len(coords) THEN acc
    ELSE IF j = 1 \/ coords[j][1] # coords[j - 1][1] \/ coords[j][2] # coords[j - 1][2]
         THEN uniqueConsecutiveFrom(coords, j + 1, Append(acc, coords[j]))
         ELSE uniqueConsecutiveFrom(coords, j + 1, acc)

uniqueConsecutive(coords) == uniqueConsecutiveFrom(coords, 1, <<>>)

\* "Ensure we have at least start and end coordinates"
ensureStartEnd(uniqueCoords, segmentSteps) ==
    IF Len(uniqueCoords) = 0
    THEN IF Len(segmentSteps) > 1
         THEN <<segmentSteps[1].location, segmentSteps[Len(segmentSteps)].location>>
         ELSE <<segmentSteps[1].location>>
    ELSE uniqueCoords

\* the distance of a step-grouped segment
stepsDistanceFromPath(segmentSteps, uniqueCoords) == calculatePathDistance(uniqueCoords)

stepsDistance(segmentSteps, uniqueCoords) ==
    SumSeq([k \in 1..Len(segmentSteps) |-> segmentSteps[k].distance])

RECURSIVE segmentByStepsFrom(_, _, _, _, _)
segmentByStepsFrom(list, stepsPerSegment, stepIdx, segmentIndex, segs) ==
    IF stepIdx >= Len(list) THEN segs
    ELSE LET remainingSteps == Len(list) - stepIdx
             count == Min(stepsPerSegment, remainingSteps)
             startStepIdx == stepIdx
             endStepIdx == stepIdx + count - 1
             segmentSteps == Slice(list, startStepIdx, endStepIdx + 1)
             uniqueCoords ==
                 ensureStartEnd(uniqueConsecutive(concatStepCoordinates(segmentSteps)),
                                segmentSteps)
             distance == stepsDistance(segmentSteps, uniqueCoords)
             stepIndices == [k \in 1..(endStepIdx - startStepIdx + 1) |-> startStepIdx + k - 1]
         IN  segmentByStepsFrom(list, stepsPerSegment, stepIdx + count, segmentIndex + 1,
                 Append(segs, RouteSegment(segmentIndex, uniqueCoords, distance,
                                           <<startStepIdx, endStepIdx>>, stepIndices)))

segmentBySteps(list, stepsPerSegment) ==
    segmentByStepsFrom(list, stepsPerSegment, 0, 1, <<>>)

segmentRouteSteps(coords, stps, stepsPerSegment) ==
    IF ~stps.present \/ Len(stps.list) = 0
    THEN <<RouteSegment(1, coords, calculatePathDistance(coords), <<>>, <<>>)>>
    ELSE segmentBySteps(stps.list, stepsPerSegment)

(***************************************************************************)
(* Inputs of the segmentation runs.                                        *)
(***************************************************************************)
\* route points: three corners of a 0.001-degree cell (distances 0, 20 and 28)
RoutePoints == {<<0, 0>>, <<20, 0>>, <<20, 20>>}

\* target distances: below, between and above the distances 20 and 28 of the grid
Targets == {0, 25, 45}

SeqsUpTo(S, n) == UNION {[1..k -> S] : k \in 0..n}

Routes == SeqsUpTo(RoutePoints, MaxRouteLen)

\* steps as the distance and count policies see them (only location is read)
PlainSteps ==
    {[distance |-> 10, location |-> l, geometry |-> <<>>] : l \in {<<0, 0>>, <<20, 20>>}}

\* steps as the step-grouped policy sees them: own distance, optional geometry
GeometrySteps ==
    {[distance |-> d, location |-> l, geometry |-> g] :
        d \in {10, 30}, l \in {<<0, 0>>, <<20, 20>>},
        g \in {<<>>, <<<<0, 0>>, <<20, 0>>>>}}

StepArgs(S) ==
    {[present |-> FALSE, list |-> <<>>]}
    \cup {[present |-> TRUE, list |-> l] : l \in SeqsUpTo(S, MaxSteps)}

\* the routes paired with the step-grouped inputs
ShortRoutes == {<<>>, <<<<0, 0>>, <<20, 0>>>>, <<<<0, 0>>, <<20, 0>>, <<20, 20>>>>}

\* before groupStepsBySegment is called
\* fetchWalkingRoute has not been called
OsrmIdle == osrm = [pc |-> "off"]

\* segmentBySteps is not being stepped through
LoopIdle == bySteps = [pc |-> "off"]

GrpIdle == grouping = [fn |-> "none", outcome |-> "none", segmentSteps |-> <<>>]

\* the POI client's state while fetchPOIsForSegments is not called
OvpIdle ==
    /\ segmentBounds = <<>>
    /\ ovpPc = "off"
    /\ ovpI = 0
    /\ batchPromises = <<>>
    /\ allPOIs = <<>>
    /\ ovpLog = {}

\* the geocoding client's state while fetchSegmentLocations is not called
NomIdle ==
    /\ clock = 0
    /\ lastRequestTime = 0
    /\ requestTimes = <<>>
    /\ requestKeys = EmptyBag
    /\ nomSegments = <<>>
    /\ nomPc = "off"
    /\ nomI = 0
    /\ nomTasks = <<>>
    /\ results = {}
    /\ locations = <<>>

\* the geometry helpers' state while none of them is called
GeoIdle ==
    /\ call = [fn |-> "none"]
    /\ result = <<>>

\* the renderer's state while only segmentation runs
PoiIdle ==
    /\ segment = <<>>
    /\ pois = <<>>
    /\ poiPc = "off"
    /\ nearbyPois = <<>>
    /\ poiK = 0
    /\ markers = <<>>
    /\ usedLabelPositions = <<>>

SegInit ==
    /\ PoiIdle
    /\ GrpIdle
    /\ LoopIdle
    /\ OsrmIdle
    /\ OvpIdle
    /\ NomIdle
    /\ GeoIdle
    /\ \/ coordinates \in Routes /\ steps \in StepArgs(PlainSteps)
       \/ coordinates \in ShortRoutes /\ steps \in StepArgs(GeometrySteps)
    /\ op = "idle"
    /\ param = 0
    /\ outcome = "none"
    /\ segments = <<>>

(***************************************************************************)
(* The segmentRoute calls.  None of the versions has a throw statement or  *)
(* reads a property of undefined, so every call returns.                   *)
(***************************************************************************)
\* segmentRoute of the distance/count version: dispatch on segmentMode
SegmentRouteDistanceMode ==
    /\ op = "idle"
    /\ \E targetDistance \in Targets :
          /\ segments' = segmentByDistance(coordinates, targetDistance, steps)
          /\ param' = targetDistance
    /\ op' = "distance"
    /\ outcome' = "returned"
    /\ UNCHANGED <<coordinates, steps>>
    /\ UNCHANGED poiVars
    /\ UNCHANGED geoVars
    /\ UNCHANGED nomVars
    /\ UNCHANGED ovpVars
    /\ UNCHANGED grpVars
    /\ UNCHANGED loopVars
    /\ UNCHANGED osrmVars

SegmentRouteCountMode ==
    /\ op = "idle"
    /\ \E numSegments \in 1..MaxSegments :
          /\ segments' = segmentByCoordinates(coordinates, numSegments, steps)
          /\ param' = numSegments
    /\ op' = "count"
    /\ outcome' = "returned"
    /\ UNCHANGED <<coordinates, steps>>
    /\ UNCHANGED poiVars
    /\ UNCHANGED geoVars
    /\ UNCHANGED nomVars
    /\ UNCHANGED ovpVars
    /\ UNCHANGED grpVars
    /\ UNCHANGED loopVars
    /\ UNCHANGED osrmVars

\* segmentRoute of the first version (count only, steps ignored)
SegmentRouteCountOnly ==
    /\ op = "idle"
    /\ \E numSegments \in 1..MaxSegments :
          /\ segments' = segmentRouteCount(coordinates, numSegments)
          /\ param' = numSegments
    /\ op' = "countOnly"
    /\ outcome' = "returned"
    /\ UNCHANGED <<coordinates, steps>>
    /\ UNCHANGED poiVars
    /\ UNCHANGED geoVars
    /\ UNCHANGED nomVars
    /\ UNCHANGED ovpVars
    /\ UNCHANGED grpVars
    /\ UNCHANGED loopVars
    /\ UNCHANGED osrmVars

\* segmentRoute of the step-grouped version
SegmentRouteStepGrouped ==
    /\ op = "idle"
    /\ \E stepsPerSegment \in 1..MaxStepsPerSegment :
          /\ segments' = segmentRouteSteps(coordinates, steps, stepsPerSegment)
          /\ param' = stepsPerSegment
    /\ op' = "steps"
    /\ outcome' = "returned"
    /\ UNCHANGED <<coordinates, steps>>
    /\ UNCHANGED poiVars
    /\ UNCHANGED geoVars
    /\ UNCHANGED nomVars
    /\ UNCHANGED ovpVars
    /\ UNCHANGED grpVars
    /\ UNCHANGED loopVars
    /\ UNCHANGED osrmVars

SegNext ==
    \/ SegmentRouteDistanceMode
    \/ SegmentRouteCountMode
    \/ SegmentRouteCountOnly
    \/ SegmentRouteStepGrouped

SpecSeg == SegInit /\ [][SegNext]_vars

(***************************************************************************)
(* Claims about segmentation.                                              *)
(***************************************************************************)
SegmentDistances == [i \in 1..Len(segments) |-> segments[i].distance]

SegmentCoordinates(segs) == [i \in 1..Len(segs) |-> segs[i].coordinates]

AbsentSteps == [present |-> FALSE, list |-> <<>>]

\* the step list is empty or absent
NoSteps == ~steps.present \/ Len(steps.list) = 0

\* the sum of step.distance over the steps with 0-based index first..last
StepDistanceSum(first, last) ==
    SumSeq([k \in 1..(last - first + 1) |-> steps.list[first + k].distance])

\* C1: distance-threshold segmentation of a route with at least 2 coordinates:
\* adjacent segments share their end/start coordinate, the first segment starts
\* at the route's first coordinate and the last ends at its last coordinate.
C1_DistanceContinuity ==
    (op = "distance" /\ Len(coordinates) >= 2) =>
        /\ Len(segments) >= 1
        /\ segments[1].startCoord = coordinates[1]
        /\ segments[Len(segments)].endCoord = coordinates[Len(coordinates)]
        /\ \A i \in 1..(Len(segments) - 1) :
              segments[i].endCoord = segments[i + 1].startCoord

C1_Witness ==
    /\ op = "distance"
    /\ Len(coordinates) >= 3
    /\ Len(segments) >= 2
    /\ segments[1].endCoord # segments[1].startCoord

\* C2: distance-threshold segmentation: the segments' distances add up to
\* calculatePathDistance of the whole route, for every route and target.
C2_DistanceSum ==
    op = "distance" => SumSeq(SegmentDistances) = calculatePathDistance(coordinates)

C2_Witness ==
    /\ op = "distance"
    /\ Len(segments) >= 2
    /\ \A i \in 1..Len(segments) : segments[i].distance > 0

\* C3: fixed-count segmentation of a route with at least N coordinates (also
\* exactly N) returns exactly N segments, each with at least 2 coordinates.
C3_FixedCountTwoCoordinates ==
    (op \in {"count", "countOnly"} /\ Len(coordinates) >= param) =>
        /\ Len(segments) = param
        /\ \A i \in 1..Len(segments) : Len(segments[i].coordinates) >= 2

\* C4: step-grouped segmentation of a non-empty step list: every emitted
\* segment has at least 2 coordinates.
C4_StepSegmentsTwoCoordinates ==
    (op = "steps" /\ ~NoSteps) =>
        \A i \in 1..Len(segments) : Len(segments[i].coordinates) >= 2

\* C5: segmentRoute on a route with an empty coordinate sequence fails (throws)
\* under every policy instead of returning segments.
C5_EmptyRouteFails ==
    (op # "idle" /\ Len(coordinates) = 0) => outcome = "threw"

\* C6: step-grouped segmentation: each segment's distance is the sum of
\* step.distance over its stepRange, and the segments' distances add up to the
\* sum of all steps' distances.
C6_StepDistances ==
    (op = "steps" /\ ~NoSteps) =>
        /\ \A i \in 1..Len(segments) :
              /\ Len(segments[i].stepRange) = 2
              /\ segments[i].distance =
                     StepDistanceSum(segments[i].stepRange[1], segments[i].stepRange[2])
        /\ SumSeq(SegmentDistances) = StepDistanceSum(0, Len(steps.list) - 1)

C6_Witness ==
    /\ op = "steps"
    /\ Len(segments) >= 2
    /\ \E i \in 1..Len(segments) :
          /\ segments[i].stepRange[2] > segments[i].stepRange[1]
          /\ segments[i].distance # calculatePathDistance(segments[i].coordinates)

C8_EmptySteps ==
    NoSteps =>
        /\ op = "steps" =>
              /\ Len(segments) = 1
              /\ segments[1].index = 1
              /\ segments[1].coordinates = coordinates
        /\ op = "distance" =>
              /\ SegmentCoordinates(segments) =
                     SegmentCoordinates(segmentByDistance(coordinates, param, AbsentSteps))
              /\ \A i \in 1..Len(segments) : segments[i].stepRange = <<>>
        /\ op = "count" =>
              /\ SegmentCoordinates(segments) =
                     SegmentCoordinates(segmentRouteCount(coordinates, param))
              /\ \A i \in 1..Len(segments) : segments[i].stepRange = <<>>

C8_Witness ==
    /\ op = "count"
    /\ steps.present
    /\ Len(steps.list) = 0
    /\ Len(segments) >= 2
    /\ Len(segments[1].coordinates) >= 2

(***************************************************************************)
(* rendering/svg.ts (the version with POI markers).                        *)
(*                                                                         *)
(* Pixel positions are kept in units of 1/17 pixel: Px(n) is n pixels.     *)
(* The padded range of calculateBounds is 1.7 times the raw range, so for  *)
(* a segment whose larger raw range is 240 u the projection onto the       *)
(* 120-pixel viewport is x = 1020 + 5 * (lon - centerLon) of these units,  *)
(* an exact integer.  Squared distances are compared instead of distances, *)
(* and the one comparison whose products exceed 32 bits goes through       *)
(* FracLess.                                                               *)
(***************************************************************************)
\* MAP_CONFIG.segment
segmentWidth == 120

segmentHeight == 120

\* MAP_CONFIG.maxSegmentPoints
maxSegmentPoints == 100

\* MAX_DISTANCE = 0.005 degrees, in units of u
MAX_DISTANCE == 100

MAX_DISPLAYED == 3

OFFSET == 14

MARGIN == 20

Px(n) == 17 * n

\* a / b < c / d for a, c >= 0 and b, d > 0, by continued fractions (no products)
RECURSIVE FracLess(_, _, _, _)
FracLess(a, b, c, d) ==
    LET qa == a \div b
        qc == c \div d
        ra == a % b
        rc == c % d
    IN  IF qa # qc THEN qa < qc
        ELSE IF rc = 0 THEN FALSE
        ELSE IF ra = 0 THEN TRUE
        ELSE FracLess(d, rc, b, ra)

\* Math.max(lo, Math.min(hi, v))
Clamp(lo, hi, v) == Max(lo, Min(hi, v))

\* sampleCoordinates with the stride rounded up, which keeps the result
\* within maxPoints
sampleCoordinatesCeilStride(coords, maxPoints) ==
    IF Len(coords) <= maxPoints THEN coords
    ELSE LET step == Max(1, (Len(coords) + maxPoints - 1) \div maxPoints)
             kept == {i \in 0..(Len(coords) - 1) : i % step = 0}
         IN  [k \in 1..Cardinality(kept) |-> coords[(k - 1) * step + 1]]

\* utils/geo.ts
sampleCoordinates(coords, maxPoints) ==
    IF Len(coords) <= maxPoints THEN coords
    ELSE LET step == Max(1, Len(coords) \div maxPoints)
             kept == {i \in 0..(Len(coords) - 1) : i % step = 0}
         IN  [k \in 1..Cardinality(kept) |-> coords[(k - 1) * step + 1]]

\* Math.cos(centerLat * PI / 180): the modelled segments are centred on the
\* equator, the one latitude where the factor is rational (exactly 1)
latCorrection(centerLat) == CASE centerLat = 0 -> 1

\* adjustBoundsForAspectRatio with the comparison turned round, which fits the
\* viewport inside the region instead of around it
adjustBoundsForAspectRatioFit(bounds, viewportWidth, viewportHeight) ==
    LET latRange == bounds.maxLat - bounds.minLat
        lonRange == bounds.maxLon - bounds.minLon
        centerLat == (bounds.minLat + bounds.maxLat) \div 2
        centerLon == (bounds.minLon + bounds.maxLon) \div 2
        adjustedLonRange == lonRange * latCorrection(centerLat)
        \* geoAspect > viewportAspect, both sides multiplied by latRange * height
        \* (lonRange / 0 is Infinity, 0 / 0 is NaN and compares false)
        wider == adjustedLonRange * viewportHeight < latRange * viewportWidth
        newLatRange == IF wider
                       THEN (adjustedLonRange * viewportHeight) \div viewportWidth
                       ELSE latRange
        newLonRange == IF wider
                       THEN lonRange
                       ELSE (latRange * viewportWidth)
                            \div (viewportHeight * latCorrection(centerLat))
    IN  [finite |-> bounds.finite,
         minLat |-> centerLat - newLatRange \div 2,
         maxLat |-> centerLat + newLatRange \div 2,
         minLon |-> centerLon - newLonRange \div 2,
         maxLon |-> centerLon + newLonRange \div 2,
         centerLat |-> centerLat,
         centerLon |-> centerLon]

adjustBoundsForAspectRatio(bounds, viewportWidth, viewportHeight) ==
    LET latRange == bounds.maxLat - bounds.minLat
        lonRange == bounds.maxLon - bounds.minLon
        centerLat == (bounds.minLat + bounds.maxLat) \div 2
        centerLon == (bounds.minLon + bounds.maxLon) \div 2
        adjustedLonRange == lonRange * latCorrection(centerLat)
        \* geoAspect > viewportAspect, both sides multiplied by latRange * height
        \* (lonRange / 0 is Infinity, 0 / 0 is NaN and compares false)
        wider == adjustedLonRange * viewportHeight > latRange * viewportWidth
        newLatRange == IF wider
                       THEN (adjustedLonRange * viewportHeight) \div viewportWidth
                       ELSE latRange
        newLonRange == IF wider
                       THEN lonRange
                       ELSE (latRange * viewportWidth)
                            \div (viewportHeight * latCorrection(centerLat))
    IN  [finite |-> bounds.finite,
         minLat |-> centerLat - newLatRange \div 2,
         maxLat |-> centerLat + newLatRange \div 2,
         minLon |-> centerLon - newLonRange \div 2,
         maxLon |-> centerLon + newLonRange \div 2,
         centerLat |-> centerLat,
         centerLon |-> centerLon]

toSvgX(lon, bounds, width) ==
    ((lon - bounds.minLon) * Px(width)) \div (bounds.maxLon - bounds.minLon)

toSvgY(lat, bounds, height) ==
    Px(height) - ((lat - bounds.minLat) * Px(height)) \div (bounds.maxLat - bounds.minLat)

SqDist(x1, y1, x2, y2) == (x1 - x2) * (x1 - x2) + (y1 - y2) * (y1 - y2)

\* minDistanceToRoute(poi.lon, poi.lat, routeCoords) < limit
minDistanceToRouteLess(poiLon, poiLat, routeCoords, limit) ==
    \E i \in DOMAIN routeCoords :
        SqDist(routeCoords[i][1], routeCoords[i][2], poiLon, poiLat) < limit * limit

routeSvg(routeCoords, bounds, width, height) ==
    [i \in DOMAIN routeCoords |->
        [x |-> toSvgX(routeCoords[i][1], bounds, width),
         y |-> toSvgY(routeCoords[i][2], bounds, height)]]

RECURSIVE nearestRouteXFrom(_, _, _, _, _, _)
nearestRouteXFrom(poiX, poiY, rsvg, i, nearestX, minDist) ==
    IF i > Len(rsvg) THEN nearestX
    ELSE LET dist == SqDist(rsvg[i].x, rsvg[i].y, poiX, poiY)
         IN  \* minDist = -1 stands for Infinity
             IF minDist = -1 \/ dist < minDist
             THEN nearestRouteXFrom(poiX, poiY, rsvg, i + 1, rsvg[i].x, dist)
             ELSE nearestRouteXFrom(poiX, poiY, rsvg, i + 1, nearestX, minDist)

getPOISideOfRoute(poiX, poiY, routeCoords, bounds, width, height) ==
    IF poiX < nearestRouteXFrom(poiX, poiY, routeSvg(routeCoords, bounds, width, height),
                                1, poiX, -1)
    THEN "left" ELSE "right"

\* the distance from (px, py) to the path piece a-b is below limit (pixels)
pieceCloser(px, py, a, b, limit) ==
    LET dx == b.x - a.x
        dy == b.y - a.y
        len2 == dx * dx + dy * dy
        dot == (px - a.x) * dx + (py - a.y) * dy
        cross == Abs((px - a.x) * dy - (py - a.y) * dx)
        lim2 == Px(limit) * Px(limit)
    IN  /\ len2 # 0
        /\ IF dot <= 0 THEN SqDist(px, py, a.x, a.y) < lim2
           ELSE IF dot >= len2 THEN SqDist(px, py, b.x, b.y) < lim2
           ELSE cross = 0 \/ FracLess(cross, lim2, len2, cross)

\* distToRoute(px, py) < limit
distToRouteLess(px, py, rsvg, limit) ==
    \E i \in 1..(Len(rsvg) - 1) : pieceCloser(px, py, rsvg[i], rsvg[i + 1], limit)

\* "Must be away from other labels"
labelsClear(lx, ly, used) ==
    \A k \in DOMAIN used :
        ~(Abs(lx - used[k].x) < Px(22) /\ Abs(ly - used[k].y) < Px(16))

isValid(lx, ly, rsvg, width, height, startX, startY, endX, endY, used) ==
    /\ ~(lx < Px(MARGIN) \/ lx > Px(width - MARGIN)
         \/ ly < Px(MARGIN) \/ ly > Px(height - MARGIN))
    /\ ~distToRouteLess(lx, ly, rsvg, 10)
    /\ ~(SqDist(lx, ly, startX, startY) < Px(18) * Px(18))
    /\ ~(SqDist(lx, ly, endX, endY) < Px(18) * Px(18))
    /\ labelsClear(lx, ly, used)

\* the positions tried for a dot, the opposite side before the preferred one
labelCandidatesOppositeFirst(dotX, dotY, dir) ==
    LET offsets == <<OFFSET, OFFSET + 8, OFFSET + 16>>
        yShifts == <<0, -12, 12, -24, 24>>
    IN  [n \in 1..30 |->
            LET off == offsets[(n - 1) \div 10 + 1]
                yShift == yShifts[((n - 1) % 10) \div 2 + 1]
                sign == IF (n - 1) % 2 = 0 THEN -dir ELSE dir
            IN  [x |-> dotX + sign * Px(off), y |-> dotY + Px(yShift)]]

\* the positions tried for a dot, in the order of the nested loops
labelCandidates(dotX, dotY, dir) ==
    LET offsets == <<OFFSET, OFFSET + 8, OFFSET + 16>>
        yShifts == <<0, -12, 12, -24, 24>>
    IN  [n \in 1..30 |->
            LET off == offsets[(n - 1) \div 10 + 1]
                yShift == yShifts[((n - 1) % 10) \div 2 + 1]
                sign == IF (n - 1) % 2 = 0 THEN dir ELSE -dir
            IN  [x |-> dotX + sign * Px(off), y |-> dotY + Px(yShift)]]

\* "Only skip if the POI dot itself is completely outside the map"
outsideMap(x, y, width, height) ==
    x < 0 \/ x > Px(width) \/ y < 0 \/ y > Px(height)

\* the loop's exit test on markers.length
displayCapPassed(n) == n > MAX_DISPLAYED

displayCapReached(n) == n >= MAX_DISPLAYED

\* one iteration of the for loop for a POI that is not skipped
placeLabel(poi, bounds, width, height, routeCoords, startX, startY, endX, endY, used) ==
    LET x == toSvgX(poi[1], bounds, width)
        y == toSvgY(poi[2], bounds, height)
        dotX == Clamp(Px(2), Px(width - 2), x)
        dotY == Clamp(Px(2), Px(height - 2), y)
        side == getPOISideOfRoute(dotX, dotY, routeCoords, bounds, width, height)
        dir == IF side = "right" THEN 1 ELSE -1
        rsvg == routeSvg(routeCoords, bounds, width, height)
        cands == labelCandidates(dotX, dotY, dir)
        valid == {n \in 1..30 : isValid(cands[n].x, cands[n].y, rsvg, width, height,
                                        startX, startY, endX, endY, used)}
        found == valid # {}
        first == SetMin(valid)
    IN  [dotX |-> dotX, dotY |-> dotY, found |-> found,
         labelX |-> IF found THEN cands[first].x
                    ELSE Clamp(Px(MARGIN), Px(width - MARGIN), dotX + dir * Px(OFFSET)),
         labelY |-> IF found THEN cands[first].y
                    ELSE Clamp(Px(MARGIN), Px(height - MARGIN), dotY)]

\* what generateSegmentMapSvg hands to generatePOIMarkers
svgBounds == adjustBoundsForAspectRatio(segment.bounds, segmentWidth, segmentHeight)

svgRouteCoords == sampleCoordinates(segment.coordinates, maxSegmentPoints)

svgStartX == toSvgX(segment.startCoord[1], svgBounds, segmentWidth)

svgStartY == toSvgY(segment.startCoord[2], svgBounds, segmentHeight)

svgEndX == toSvgX(segment.endCoord[1], svgBounds, segmentWidth)

svgEndY == toSvgY(segment.endCoord[2], svgBounds, segmentHeight)

(***************************************************************************)
(* Inputs of the rendering runs: segments centred on the equator whose     *)
(* larger raw range is 240 u, and POIs around them.                        *)
(***************************************************************************)
MaxPois == 4

\* three parallel stretches 60 u (17.6 pixels) apart, joined at their ends
ZigzagRoute ==
    <<<<-120, 60>>, <<120, 60>>, <<120, 0>>, <<-120, 0>>, <<-120, -60>>, <<120, -60>>>>

DiagonalRoute == <<<<-120, -120>>, <<0, 0>>, <<120, 120>>>>

RenderedSegments ==
    {RouteSegment(1, r, calculatePathDistance(r), <<>>, <<>>) :
        r \in {ZigzagRoute, DiagonalRoute}}

\* two POIs on the zigzag's middle stretch, one beside the route, one near the
\* zigzag's corner but off the map, one far from both routes
PoiPoints == {<<40, 0>>, <<60, 0>>, <<-60, 70>>, <<210, 0>>, <<0, 200>>}

MaxEdgePois == 2

\* POIs of the diagonal route whose first label candidates fail: one on the
\* path, one near the right margin, one near the left margin beside the start
EdgePoiPoints == {<<0, 0>>, <<140, 40>>, <<-194, -120>>}

PoiInit ==
    /\ GeoIdle
    /\ GrpIdle
    /\ LoopIdle
    /\ OsrmIdle
    /\ OvpIdle
    /\ NomIdle
    /\ coordinates = <<>>
    /\ steps = [present |-> FALSE, list |-> <<>>]
    /\ op = "off"
    /\ param = 0
    /\ outcome = "none"
    /\ segments = <<>>
    /\ \/ segment \in RenderedSegments /\ pois \in SeqsUpTo(PoiPoints, MaxPois)
       \/ /\ segment = RouteSegment(1, DiagonalRoute, calculatePathDistance(DiagonalRoute),
                                    <<>>, <<>>)
          /\ pois \in SeqsUpTo(EdgePoiPoints, MaxEdgePois)
    /\ poiPc = "idle"
    /\ nearbyPois = <<>>
    /\ poiK = 0
    /\ markers = <<>>
    /\ usedLabelPositions = <<>>

(***************************************************************************)
(* generatePOIMarkers, one action per step of its loop.                    *)
(***************************************************************************)
\* the early return on no POIs, else the proximity filter
GeneratePOIMarkersBegin ==
    /\ poiPc = "idle"
    /\ IF Len(pois) = 0
       THEN /\ poiPc' = "done"
            /\ UNCHANGED nearbyPois
       ELSE /\ poiPc' = "loop"
            /\ nearbyPois' =
                   LET near == {i \in DOMAIN pois :
                                   minDistanceToRouteLess(pois[i][1], pois[i][2],
                                                          svgRouteCoords, MAX_DISTANCE)}
                       RECURSIVE InOrder(_)
                       InOrder(S) == IF S = {} THEN <<>>
                                     ELSE <<SetMin(S)>> \o InOrder(S \ {SetMin(S)})
                   IN  InOrder(near)
    /\ poiK' = 1
    /\ UNCHANGED <<segment, pois, markers, usedLabelPositions>>
    /\ UNCHANGED segVars
    /\ UNCHANGED geoVars
    /\ UNCHANGED nomVars
    /\ UNCHANGED ovpVars
    /\ UNCHANGED grpVars
    /\ UNCHANGED loopVars
    /\ UNCHANGED osrmVars

\* an iteration that hits "continue": the raw dot is outside the map
POISkipOutside ==
    /\ poiPc = "loop"
    /\ poiK <= Len(nearbyPois)
    /\ ~displayCapReached(Len(markers))
    /\ outsideMap(toSvgX(pois[nearbyPois[poiK]][1], svgBounds, segmentWidth),
                  toSvgY(pois[nearbyPois[poiK]][2], svgBounds, segmentHeight),
                  segmentWidth, segmentHeight)
    /\ poiK' = poiK + 1
    /\ UNCHANGED <<segment, pois, poiPc, nearbyPois, markers, usedLabelPositions>>
    /\ UNCHANGED segVars
    /\ UNCHANGED geoVars
    /\ UNCHANGED nomVars
    /\ UNCHANGED ovpVars
    /\ UNCHANGED grpVars
    /\ UNCHANGED loopVars
    /\ UNCHANGED osrmVars

\* an iteration that places a label (by the search or the fallback)
POIPlaceLabel ==
    /\ poiPc = "loop"
    /\ poiK <= Len(nearbyPois)
    /\ ~displayCapReached(Len(markers))
    /\ ~outsideMap(toSvgX(pois[nearbyPois[poiK]][1], svgBounds, segmentWidth),
                   toSvgY(pois[nearbyPois[poiK]][2], svgBounds, segmentHeight),
                   segmentWidth, segmentHeight)
    /\ LET m == placeLabel(pois[nearbyPois[poiK]], svgBounds, segmentWidth, segmentHeight,
                           svgRouteCoords, svgStartX, svgStartY, svgEndX, svgEndY,
                           usedLabelPositions)
       IN  /\ usedLabelPositions' = Append(usedLabelPositions, [x |-> m.labelX, y |-> m.labelY])
           /\ markers' = Append(markers,
                  [poi |-> nearbyPois[poiK], dotX |-> m.dotX, dotY |-> m.dotY,
                   labelX |-> m.labelX, labelY |-> m.labelY, found |-> m.found])
    /\ poiK' = poiK + 1
    /\ UNCHANGED <<segment, pois, poiPc, nearbyPois>>
    /\ UNCHANGED segVars
    /\ UNCHANGED geoVars
    /\ UNCHANGED nomVars
    /\ UNCHANGED ovpVars
    /\ UNCHANGED grpVars
    /\ UNCHANGED loopVars
    /\ UNCHANGED osrmVars

\* the loop ends: the list is exhausted or the break on MAX_DISPLAYED
GeneratePOIMarkersEnd ==
    /\ poiPc = "loop"
    /\ poiK > Len(nearbyPois) \/ displayCapReached(Len(markers))
    /\ poiPc' = "done"
    /\ UNCHANGED <<segment, pois, nearbyPois, poiK, markers, usedLabelPositions>>
    /\ UNCHANGED segVars
    /\ UNCHANGED geoVars
    /\ UNCHANGED nomVars
    /\ UNCHANGED ovpVars
    /\ UNCHANGED grpVars
    /\ UNCHANGED loopVars
    /\ UNCHANGED osrmVars

PoiNext ==
    \/ GeneratePOIMarkersBegin
    \/ POISkipOutside
    \/ POIPlaceLabel
    \/ GeneratePOIMarkersEnd

SpecPoi == PoiInit /\ [][PoiNext]_vars

(***************************************************************************)
(* Claims about POI markers.                                               *)
(***************************************************************************)
\* the candidates within the proximity threshold of the route whose raw
\* projected point lies inside the viewport
EligiblePois ==
    {i \in DOMAIN pois :
        /\ minDistanceToRouteLess(pois[i][1], pois[i][2], svgRouteCoords, MAX_DISTANCE)
        /\ toSvgX(pois[i][1], svgBounds, segmentWidth) \in 0..Px(segmentWidth)
        /\ toSvgY(pois[i][2], svgBounds, segmentHeight) \in 0..Px(segmentHeight)}

\* the number of eligible candidates among the first i
EligibleUpTo(i) == Cardinality({j \in EligiblePois : j <= i})

Separated(p, q) == ~(Abs(p.x - q.x) < Px(22) /\ Abs(p.y - q.y) < Px(16))

SearchLabelsSeparated ==
    \A i, j \in DOMAIN markers :
        (i < j /\ markers[j].found) =>
            Separated(usedLabelPositions[i], usedLabelPositions[j])

\* C10: no two label positions of one generatePOIMarkers call, found by the
\* search or by the fallback, have both |dx| < 22 and |dy| < 16.
C10_AllLabelsSeparated ==
    \A i, j \in DOMAIN usedLabelPositions :
        i < j => Separated(usedLabelPositions[i], usedLabelPositions[j])

(***************************************************************************)
(* The geometry helpers called on their own: projection, calculateBounds,  *)
(* sampleCoordinates, calculateZoomLevel.                                  *)
(***************************************************************************)
\* the value of the JavaScript quotient num / den that toSvgX and toSvgY
\* scale: a number, or NaN (0 / 0), or +/-Infinity (x / 0)
quotientKind(num, den) ==
    IF den # 0 THEN "number"
    ELSE IF num = 0 THEN "NaN"
    ELSE IF num > 0 THEN "Infinity"
    ELSE "-Infinity"

\* the kind of number toSvgX returns: (quotient) * width keeps the kind
toSvgXKind(lon, bounds) ==
    quotientKind(lon - bounds.minLon, bounds.maxLon - bounds.minLon)

\* the kind of number toSvgY returns: height - (quotient) * height flips the
\* sign of an infinity
toSvgYKind(lat, bounds) ==
    LET kind == quotientKind(lat - bounds.minLat, bounds.maxLat - bounds.minLat)
    IN  IF kind = "Infinity" THEN "-Infinity"
        ELSE IF kind = "-Infinity" THEN "Infinity"
        ELSE kind

\* generateSegmentMapSvg's projection of one coordinate of a segment: the
\* number fields are 0 where the result is not a number
projectPoint(bounds, point, width, height) ==
    LET adjusted == adjustBoundsForAspectRatio(bounds, width, height)
        xKind == toSvgXKind(point[1], adjusted)
        yKind == toSvgYKind(point[2], adjusted)
    IN  [xKind |-> xKind,
         x |-> IF xKind = "number" THEN toSvgX(point[1], adjusted, width) ELSE 0,
         yKind |-> yKind,
         y |-> IF yKind = "number" THEN toSvgY(point[2], adjusted, height) ELSE 0]

\* segments whose coordinates coincide, lie on one parallel or on one
\* meridian, and the two rendered routes
ProjectedRegions ==
    {<<<<0, 0>>>>, <<<<40, 0>>, <<40, 0>>>>,
     <<<<-120, 0>>, <<120, 0>>>>, <<<<0, -120>>, <<0, 120>>>>,
     ZigzagRoute, DiagonalRoute}

\* the segmenter's state while no route is segmented
SegOff ==
    /\ coordinates = <<>>
    /\ steps = [present |-> FALSE, list |-> <<>>]
    /\ op = "off"
    /\ param = 0
    /\ outcome = "none"
    /\ segments = <<>>

GeoInit ==
    /\ SegOff
    /\ GrpIdle
    /\ LoopIdle
    /\ OsrmIdle
    /\ OvpIdle
    /\ NomIdle
    /\ PoiIdle
    /\ GeoIdle

\* toSvgX / toSvgY of a coordinate of a segment, as generateSegmentMapSvg
\* calls them for startCoord, endCoord and the path
ProjectPoint ==
    /\ \E coords \in ProjectedRegions :
         \E i \in DOMAIN coords :
            /\ call' = [fn |-> "project", coordinates |-> coords, point |-> coords[i],
                        width |-> segmentWidth, height |-> segmentHeight]
            /\ result' = projectPoint(calculateBounds(coords), coords[i],
                                      segmentWidth, segmentHeight)
    /\ UNCHANGED segVars
    /\ UNCHANGED poiVars
    /\ UNCHANGED nomVars
    /\ UNCHANGED ovpVars
    /\ UNCHANGED grpVars
    /\ UNCHANGED loopVars
    /\ UNCHANGED osrmVars

\* a region with zero latitude range or zero longitude range
Degenerate(bounds) ==
    bounds.maxLat = bounds.minLat \/ bounds.maxLon = bounds.minLon

\* C11: projecting a point of a region whose latitude or longitude range is
\* zero divides by no zero (the result is a number on both axes) and gives
\* the viewport centre (width/2, height/2).
C11_DegenerateProjectsToCenter ==
    (call.fn = "project" /\ Degenerate(calculateBounds(call.coordinates))) =>
        /\ result.xKind = "number"
        /\ result.yKind = "number"
        /\ 2 * result.x = Px(call.width)
        /\ 2 * result.y = Px(call.height)

\* the coordinates handed to calculateBounds, on both sides of the equator
\* and of the prime meridian
MaxBoundsLen == 3

BoundsPoints == {<<0, 0>>, <<20, 0>>, <<-40, 60>>, <<100, -20>>, <<-40, -80>>}

CalculateBounds ==
    /\ \E coords \in SeqsUpTo(BoundsPoints, MaxBoundsLen) :
         /\ call' = [fn |-> "calculateBounds", coordinates |-> coords]
         /\ result' = calculateBounds(coords)
    /\ UNCHANGED segVars
    /\ UNCHANGED poiVars
    /\ UNCHANGED nomVars
    /\ UNCHANGED ovpVars
    /\ UNCHANGED grpVars
    /\ UNCHANGED loopVars
    /\ UNCHANGED osrmVars

\* C12: for a non-empty coordinate set the region calculateBounds returns
\* contains every input coordinate, and its centre is the midpoint of the
\* returned (padded) extremes.
C12_BoundsContainAndCenter ==
    (call.fn = "calculateBounds" /\ Len(call.coordinates) > 0) =>
        /\ \A i \in DOMAIN call.coordinates :
              /\ result.minLat <= call.coordinates[i][2]
              /\ call.coordinates[i][2] <= result.maxLat
              /\ result.minLon <= call.coordinates[i][1]
              /\ call.coordinates[i][1] <= result.maxLon
        /\ 2 * result.centerLat = result.minLat + result.maxLat
        /\ 2 * result.centerLon = result.minLon + result.maxLon

\* three distinct coordinates, padded on both axes
C12_Witness ==
    /\ call.fn = "calculateBounds"
    /\ Len(call.coordinates) = 3
    /\ result.minLat < -80
    /\ result.maxLat > 60
    /\ result.minLon < -40
    /\ result.maxLon > 100

\* the lengths and limits sampleCoordinates is called with, next to the
\* 250-element scenario with maxPoints = 100
MaxSampleLen == 12

MaxSamplePoints == 4

\* a path of n coordinates, each one distinct
PathOfLength(n) == [i \in 1..n |-> <<20 * i, 0>>]

SampleInputs ==
    {<<PathOfLength(n), m>> : n \in 0..MaxSampleLen, m \in 1..MaxSamplePoints}
        \cup {<<PathOfLength(250), maxSegmentPoints>>}

SampleCoordinates ==
    /\ \E input \in SampleInputs :
         /\ call' = [fn |-> "sampleCoordinates", coordinates |-> input[1],
                     maxPoints |-> input[2]]
         /\ result' = sampleCoordinates(input[1], input[2])
    /\ UNCHANGED segVars
    /\ UNCHANGED poiVars
    /\ UNCHANGED nomVars
    /\ UNCHANGED ovpVars
    /\ UNCHANGED grpVars
    /\ UNCHANGED loopVars
    /\ UNCHANGED osrmVars

\* Math.ceil(a / b) for a >= 0, b > 0
CeilDiv(a, b) == (a + b - 1) \div b

\* the result of the last sampleCoordinates call is the elements at indices
\* 0, stride, 2 * stride, ... with stride = max(1, floor(len / maxPoints)),
\* or the input itself when len <= maxPoints
SampledByStride ==
    LET len == Len(call.coordinates)
        stride == Max(1, len \div call.maxPoints)
    IN  IF len <= call.maxPoints
        THEN result = call.coordinates
        ELSE /\ Len(result) = CeilDiv(len, stride)
             /\ \A k \in 1..Len(result) : result[k] = call.coordinates[(k - 1) * stride + 1]
             /\ result[1] = call.coordinates[1]

Scenario250 ==
    /\ call.fn = "sampleCoordinates"
    /\ Len(call.coordinates) = 250
    /\ call.maxPoints = 100

RECURSIVE ceilIdealZoomFrom(_, _, _)
\* Math.ceil(Math.log2(360 / (256 * degreesPerPixel)) + 1), where
\* degreesPerPixel = range / pixels with range in units of 1/20000 degree:
\* the least k with 2^k >= 2 * 360 * 20000 * pixels / (256 * range), that is
\* with 2^k * 16 * range >= 45 * 20000 * pixels.  The search runs over
\* 0..17: a result of 0 stands for every value <= 0 and 17 for every value
\* >= 17 (Infinity for a zero range included).
ceilIdealZoomFrom(range, pixels, k) ==
    IF k >= 17 \/ (2 ^ k) * 16 * range >= 45 * 20000 * pixels
    THEN k
    ELSE ceilIdealZoomFrom(range, pixels, k + 1)

\* calculateZoomLevel without the upper clamp
calculateZoomLevelNoUpperClamp(bounds, width, height) ==
    LET latRange == bounds.maxLat - bounds.minLat
        lonRange == bounds.maxLon - bounds.minLon
        lonWins == lonRange * height >= latRange * width
    IN  Max(12, IF lonWins THEN ceilIdealZoomFrom(lonRange, width, 0)
                ELSE ceilIdealZoomFrom(latRange, height, 0))

calculateZoomLevel(bounds, width, height) ==
    LET latRange == bounds.maxLat - bounds.minLat
        lonRange == bounds.maxLon - bounds.minLon
        \* Math.max(lonRange / width, latRange / height)
        lonWins == lonRange * height >= latRange * width
        ceilIdealZoom == IF lonWins THEN ceilIdealZoomFrom(lonRange, width, 0)
                         ELSE ceilIdealZoomFrom(latRange, height, 0)
    IN  Max(12, Min(16, ceilIdealZoom))

\* latitude and longitude ranges from a single building to a whole region
ZoomRanges == {0, 20, 100, 200, 400, 800, 1600, 3200, 6400}

\* MAP_CONFIG.segment and MAP_CONFIG.overview
ZoomViewports == {<<120, 120>>, <<700, 180>>}

\* a region with the given ranges, south-west corner at the origin
RegionOfRanges(latRange, lonRange) ==
    [finite |-> TRUE, minLat |-> 0, maxLat |-> latRange, minLon |-> 0,
     maxLon |-> lonRange, centerLat |-> latRange \div 2, centerLon |-> lonRange \div 2]

CalculateZoomLevel ==
    /\ \E latRange \in ZoomRanges, lonRange \in ZoomRanges, viewport \in ZoomViewports :
         /\ call' = [fn |-> "calculateZoomLevel",
                     bounds |-> RegionOfRanges(latRange, lonRange),
                     width |-> viewport[1], height |-> viewport[2]]
         /\ result' = calculateZoomLevel(RegionOfRanges(latRange, lonRange),
                                         viewport[1], viewport[2])
    /\ UNCHANGED segVars
    /\ UNCHANGED poiVars
    /\ UNCHANGED nomVars
    /\ UNCHANGED ovpVars
    /\ UNCHANGED grpVars
    /\ UNCHANGED loopVars
    /\ UNCHANGED osrmVars

\* C14: calculateZoomLevel returns an integer in [12, 16] for every region
\* with positive latitude and longitude ranges and every positive viewport.
C14_ZoomWithinRange ==
    (/\ call.fn = "calculateZoomLevel"
     /\ call.bounds.maxLat > call.bounds.minLat
     /\ call.bounds.maxLon > call.bounds.minLon) =>
        result \in 12..16

\* a region for which the ideal zoom lies strictly inside the clamp
C14_Witness ==
    /\ call.fn = "calculateZoomLevel"
    /\ call.bounds.maxLat > call.bounds.minLat
    /\ call.bounds.maxLon > call.bounds.minLon
    /\ result = 14


(***************************************************************************)
(* api/nominatim.ts: fetchPlaceName with enforceRateLimit, and              *)
(* fetchSegmentLocations with its parallel batches.  A coordinate is its    *)
(* own Map key; a response is [ok |-> TRUE, place |-> coordinate] and the   *)
(* null of a failed request is [ok |-> FALSE, place |-> <<>>]; a place      *)
(* name is the coordinate it names and 'Unknown' is <<>>.                   *)
(***************************************************************************)
nominatimDelayMs == 1100

\* fetchSegmentLocations' batchSize
nominatimBatchSize == 5

MaxNomSegments == 5

\* how many times the clock advances, by half the delay each time
MaxTicks == 4

TimeStep == nominatimDelayMs \div 2

NullResponse == [ok |-> FALSE, place |-> <<>>]

\* the name Nominatim has for a coordinate
extractLocationName(data) == IF data.ok THEN data.place ELSE <<>>

\* data?.address
addressOf(data) == IF data.ok THEN <<data.place>> ELSE <<>>

\* Map.has, Map.get (|| null), Map.set; the Map is the set of its
\* [key, data] entries
resultsHas(map, key) == \E entry \in map : entry.key = key

resultsGet(map, key) ==
    IF resultsHas(map, key)
    THEN (CHOOSE entry \in map : entry.key = key).data
    ELSE NullResponse

resultsSet(map, key, data) ==
    {entry \in map : entry.key # key} \cup {[key |-> key, data |-> data]}

\* the first segment's start, then every segment's end
coordsToFetch(segs) ==
    <<[coord |-> segs[1].startCoord, type |-> "start", segmentIndex |-> 0]>>
        \o [i \in 1..Len(segs) |->
              [coord |-> segs[i].endCoord, type |-> "end", segmentIndex |-> i - 1]]

RECURSIVE launchBatchFrom(_, _, _, _, _, _, _)
\* batch.map(async ...): the callbacks run in order up to their first
\* suspension, all at the same Date.now().  A callback whose key is in the
\* Map fetches nothing; otherwise enforceRateLimit either goes to sleep or
\* sets lastRequestTime and lets the request out.
launchBatchFrom(batch, k, map, now, last, times, tasks) ==
    IF k > Len(batch)
    THEN [tasks |-> tasks, lastRequestTime |-> last, requestTimes |-> times]
    ELSE LET coord == batch[k].coord
             timeSinceLastRequest == now - last
         IN  IF resultsHas(map, coord)
             THEN launchBatchFrom(batch, k + 1, map, now, last, times,
                     Append(tasks, [coord |-> coord, st |-> "done", wakeAt |-> 0]))
             ELSE IF timeSinceLastRequest < nominatimDelayMs
             THEN launchBatchFrom(batch, k + 1, map, now, last, times,
                     Append(tasks, [coord |-> coord, st |-> "sleeping",
                                    wakeAt |-> now + (nominatimDelayMs - timeSinceLastRequest)]))
             ELSE launchBatchFrom(batch, k + 1, map, now, now, Append(times, now),
                     Append(tasks, [coord |-> coord, st |-> "inflight", wakeAt |-> 0]))

\* the coordinates of the requests the callbacks of a batch let out at once
launchedKeys(tasks) ==
    LET sent == {k \in DOMAIN tasks : tasks[k].st = "inflight"}
    IN  [coord \in {tasks[k].coord : k \in sent} |->
            Cardinality({k \in sent : tasks[k].coord = coord})]

launchBatch(segs, i, map, now, last, times) ==
    launchBatchFrom(Slice(coordsToFetch(segs), i, i + nominatimBatchSize),
                    1, map, now, last, times, <<>>)

\* every segment's start name looked up from its own start coordinate
locationStartOwn(lastEnd, startData) ==
    [name |-> extractLocationName(startData), addr |-> addressOf(startData)]

\* the start name of a segment: the previous end name when there is one
locationStart(lastEnd, startData) ==
    IF lastEnd.present
    THEN [name |-> lastEnd.name, addr |-> lastEnd.addr]
    ELSE [name |-> extractLocationName(startData), addr |-> addressOf(startData)]

RECURSIVE buildLocationsFrom(_, _, _, _)
buildLocationsFrom(segs, i, map, lastEnd) ==
    IF i > Len(segs) THEN <<>>
    ELSE LET start == locationStart(lastEnd, resultsGet(map, segs[i].startCoord))
             endData == resultsGet(map, segs[i].endCoord)
             endName == extractLocationName(endData)
         IN  <<[startName |-> start.name, endName |-> endName,
                startAddr |-> start.addr, endAddr |-> addressOf(endData)]>>
             \o buildLocationsFrom(segs, i + 1, map,
                    [present |-> TRUE, name |-> endName, addr |-> addressOf(endData)])

buildLocations(segs, map) ==
    buildLocationsFrom(segs, 1, map, [present |-> FALSE, name |-> <<>>, addr |-> <<>>])

\* segments that share their end points, segments with a gap between one's
\* end and the next one's start, and segments going back and forth between
\* two places
ContinuousSegments(n) ==
    [i \in 1..n |-> [index |-> i, startCoord |-> <<40 * (i - 1), 0>>,
                     endCoord |-> <<40 * i, 0>>]]

GappedSegments(n) ==
    [i \in 1..n |-> [index |-> i, startCoord |-> <<40 * (i - 1) + 20, 0>>,
                     endCoord |-> <<40 * i, 0>>]]

BackAndForthSegments(n) ==
    [i \in 1..n |-> [index |-> i,
                     startCoord |-> IF i % 2 = 1 THEN <<0, 0>> ELSE <<40, 0>>,
                     endCoord |-> IF i % 2 = 1 THEN <<40, 0>> ELSE <<0, 0>>]]

NomSegmentLists ==
    {<<>>} \cup UNION {{ContinuousSegments(n), GappedSegments(n), BackAndForthSegments(n)} :
                        n \in 1..MaxNomSegments}

\* Date.now() is far later than lastRequestTime's initial 0: the clock starts
\* at the least such time
NomInit ==
    /\ SegOff
    /\ GrpIdle
    /\ LoopIdle
    /\ OsrmIdle
    /\ OvpIdle
    /\ PoiIdle
    /\ GeoIdle
    /\ clock = nominatimDelayMs
    /\ lastRequestTime = 0
    /\ requestTimes = <<>>
    /\ requestKeys = EmptyBag
    /\ nomSegments \in NomSegmentLists
    /\ nomPc = "idle"
    /\ nomI = 0
    /\ nomTasks = <<>>
    /\ results = {}
    /\ locations = <<>>

NomOthersUnchanged ==
    /\ UNCHANGED segVars
    /\ UNCHANGED poiVars
    /\ UNCHANGED geoVars
    /\ UNCHANGED ovpVars
    /\ UNCHANGED grpVars
    /\ UNCHANGED loopVars
    /\ UNCHANGED osrmVars

\* the call, up to the first await Promise.all (or the early return)
FetchSegmentLocationsCall ==
    /\ nomPc = "idle"
    /\ IF Len(nomSegments) = 0
       THEN /\ nomPc' = "done"
            /\ locations' = <<>>
            /\ UNCHANGED <<nomTasks, lastRequestTime, requestTimes, requestKeys>>
       ELSE LET launched == launchBatch(nomSegments, 0, results, clock,
                                        lastRequestTime, requestTimes)
            IN  /\ nomPc' = "batch"
                /\ nomTasks' = launched.tasks
                /\ lastRequestTime' = launched.lastRequestTime
                /\ requestTimes' = launched.requestTimes
                /\ requestKeys' = requestKeys (+) launchedKeys(launched.tasks)
                /\ UNCHANGED locations
    /\ UNCHANGED <<clock, nomSegments, nomI, results>>
    /\ NomOthersUnchanged

\* enforceRateLimit after its sleep: lastRequestTime = Date.now(), and
\* fetchPlaceName sends the request
EnforceRateLimitWake ==
    /\ nomPc = "batch"
    /\ \E k \in DOMAIN nomTasks :
         /\ nomTasks[k].st = "sleeping"
         /\ clock >= nomTasks[k].wakeAt
         /\ nomTasks' = [nomTasks EXCEPT ![k].st = "inflight"]
         /\ lastRequestTime' = clock
         /\ requestTimes' = Append(requestTimes, clock)
         /\ requestKeys' = requestKeys (+) SetToBag({nomTasks[k].coord})
    /\ UNCHANGED <<clock, nomSegments, nomPc, nomI, results, locations>>
    /\ NomOthersUnchanged

\* axios.get settles: the response data, or null from the catch; the
\* callback stores it under its key
FetchPlaceNameSettles ==
    /\ nomPc = "batch"
    /\ \E k \in DOMAIN nomTasks, ok \in BOOLEAN :
         /\ nomTasks[k].st = "inflight"
         /\ nomTasks' = [nomTasks EXCEPT ![k].st = "done"]
         /\ results' = resultsSet(results, nomTasks[k].coord,
                                  IF ok THEN [ok |-> TRUE, place |-> nomTasks[k].coord]
                                  ELSE NullResponse)
    /\ UNCHANGED <<clock, lastRequestTime, requestTimes, requestKeys, nomSegments, nomPc, nomI,
                   locations>>
    /\ NomOthersUnchanged

\* await Promise.all(batchPromises) resumes: the next batch is launched, or
\* after the last batch the locations are built and returned
BatchResolved ==
    /\ nomPc = "batch"
    /\ \A k \in DOMAIN nomTasks : nomTasks[k].st = "done"
    /\ IF nomI + nominatimBatchSize < Len(coordsToFetch(nomSegments))
       THEN LET launched == launchBatch(nomSegments, nomI + nominatimBatchSize, results,
                                        clock, lastRequestTime, requestTimes)
            IN  /\ nomI' = nomI + nominatimBatchSize
                /\ nomTasks' = launched.tasks
                /\ lastRequestTime' = launched.lastRequestTime
                /\ requestTimes' = launched.requestTimes
                /\ requestKeys' = requestKeys (+) launchedKeys(launched.tasks)
                /\ UNCHANGED <<nomPc, locations>>
       ELSE /\ nomPc' = "done"
            /\ locations' = buildLocations(nomSegments, results)
            /\ UNCHANGED <<nomI, nomTasks, lastRequestTime, requestTimes, requestKeys>>
    /\ UNCHANGED <<clock, nomSegments, results>>
    /\ NomOthersUnchanged

\* time passes while the call is suspended
TimePasses ==
    /\ nomPc = "batch"
    /\ clock + TimeStep <= nominatimDelayMs + MaxTicks * TimeStep
    /\ clock' = clock + TimeStep
    /\ UNCHANGED <<lastRequestTime, requestTimes, requestKeys, nomSegments, nomPc, nomI, nomTasks,
                   results, locations>>
    /\ NomOthersUnchanged

NomNext ==
    \/ FetchSegmentLocationsCall
    \/ EnforceRateLimitWake
    \/ FetchPlaceNameSettles
    \/ BatchResolved
    \/ TimePasses

SpecNom == NomInit /\ [][NomNext]_vars

\* C15: fetchSegmentLocations returns one location per segment, in segment
\* order; every later location starts with the name and address the one
\* before it ends with, and only the first start name is looked up from
\* the segment's own start coordinate.
C15_NamesChained ==
    nomPc = "done" =>
        /\ Len(locations) = Len(nomSegments)
        /\ \A i \in DOMAIN locations :
              /\ locations[i].endName =
                    extractLocationName(resultsGet(results, nomSegments[i].endCoord))
              /\ i = 1 => locations[i].startName =
                    extractLocationName(resultsGet(results, nomSegments[i].startCoord))
              /\ i > 1 => /\ locations[i].startName = locations[i - 1].endName
                          /\ locations[i].startAddr = locations[i - 1].endAddr

\* a second segment that starts away from the first one's end, with both
\* places named: its start name is still the first one's end name
C15_Witness ==
    /\ nomPc = "done"
    /\ Len(locations) >= 2
    /\ nomSegments[2].startCoord # nomSegments[1].endCoord
    /\ locations[1].endName # <<>>
    /\ locations[2].startName = locations[1].endName

\* C16: any two Nominatim requests are issued at least nominatimDelayMs
\* apart, whatever the interleaving of the concurrent fetchPlaceName calls.
C16_RequestsSpaced ==
    \A i, j \in DOMAIN requestTimes :
        i < j => requestTimes[j] - requestTimes[i] >= nominatimDelayMs

\* every coordinate to fetch occurs once among the first start and the ends
KeysDistinct(segs) ==
    \A i, j \in DOMAIN coordsToFetch(segs) :
        i < j => coordsToFetch(segs)[i].coord # coordsToFetch(segs)[j].coord

\* no coordinate is requested twice when every coordinate to fetch is distinct
DistinctKeysRequestedOnce ==
    (Len(nomSegments) > 0 /\ KeysDistinct(nomSegments)) =>
        \A key \in DOMAIN requestKeys : requestKeys[key] <= 1

\* C29: during one call of fetchSegmentLocations at most one Nominatim
\* request is issued per distinct coordinate key, also when the same
\* coordinate occurs twice in one parallel batch.
C29_OneRequestPerKey ==
    \A key \in DOMAIN requestKeys : requestKeys[key] <= 1

(***************************************************************************)
(* api/overpass.ts: fetchPOIsInBounds and fetchPOIsForSegments.  An         *)
(* Overpass element is [id, lat, lon, name, amenity], the name "" standing  *)
(* for a missing name tag.                                                  *)
(***************************************************************************)
\* fetchPOIsForSegments' batchSize
overpassBatchSize == 3

\* fetchPOIsInBounds returns pois.slice(0, 10)
maxReturnedPois == 10

MaxOvpSegments == 4

POI_TYPES ==
    [hospital |-> [label |-> "Hospital", iconType |-> "hospital", priority |-> 1],
     fire_station |-> [label |-> "Fire Station", iconType |-> "fire-station", priority |-> 2],
     police |-> [label |-> "Police", iconType |-> "police", priority |-> 3],
     place_of_worship |-> [label |-> "Church", iconType |-> "church", priority |-> 4],
     fuel |-> [label |-> "Gas", iconType |-> "gas", priority |-> 5],
     school |-> [label |-> "School", iconType |-> "school", priority |-> 6]]

\* .filter((el) => el.tags?.name && POI_TYPES[el.tags.amenity])
keptElements(elements) ==
    SelectSeq(elements, LAMBDA el : el.name # "" /\ el.amenity \in DOMAIN POI_TYPES)

\* .map((el) => ({ id, lat, lon, name, type, iconType, priority }))
elementToPoi(el) ==
    [id |-> el.id, lat |-> el.lat, lon |-> el.lon, name |-> el.name,
     type |-> POI_TYPES[el.amenity].label,
     iconType |-> POI_TYPES[el.amenity].iconType,
     priority |-> POI_TYPES[el.amenity].priority]

RECURSIVE sortByPriorityFrom(_, _)
\* .sort((a, b) => a.priority - b.priority): stable, so equal priorities keep
\* their order
sortByPriorityFrom(poiList, priority) ==
    IF priority > 6 THEN <<>>
    ELSE SelectSeq(poiList, LAMBDA poi : poi.priority = priority)
         \o sortByPriorityFrom(poiList, priority + 1)

\* the try block of fetchPOIsInBounds on a response
poisOfResponse(elements) ==
    LET kept == keptElements(elements)
        mapped == [i \in DOMAIN kept |-> elementToPoi(kept[i])]
    IN  Slice(sortByPriorityFrom(mapped, 1), 0, maxReturnedPois)

\* what the Overpass server may answer for a bounding box: elements at its
\* centre
OverpassAnswers(bounds) ==
    LET el(id, name, amenity) ==
            [id |-> id, lat |-> bounds.centerLat, lon |-> bounds.centerLon,
             name |-> name, amenity |-> amenity]
    IN  {<<>>,
         <<el(1, "PS 1", "school"), el(2, "General", "hospital")>>,
         <<el(3, "Bench", "bench"), el(4, "", "hospital"), el(1, "PS 1", "school")>>}

\* a promise of the batch settles with its value, at its own position
settleInArrivalOrder(promises, k, value) ==
    LET arrival == 1 + Cardinality({j \in DOMAIN promises : promises[j].st = "fulfilled"})
    IN  [j \in DOMAIN promises |->
            [st |-> IF j = k THEN "fulfilled" ELSE promises[j].st,
             value |-> IF j = arrival THEN value ELSE promises[j].value]]

settle(promises, k, value) ==
    [promises EXCEPT ![k] = [st |-> "fulfilled", value |-> value]]

\* batch.map(async ...): every request of the batch is sent
launchOverpassBatch(boundsList, i) ==
    [k \in 1..Len(Slice(boundsList, i, i + overpassBatchSize)) |->
        [st |-> "pending", value |-> <<>>]]

OvpRegions ==
    {calculateBounds(<<<<0, 0>>, <<20, 20>>>>), calculateBounds(<<<<40, 40>>, <<60, 60>>>>)}

OvpInit ==
    /\ SegOff
    /\ GrpIdle
    /\ LoopIdle
    /\ OsrmIdle
    /\ PoiIdle
    /\ GeoIdle
    /\ NomIdle
    /\ segmentBounds \in SeqsUpTo(OvpRegions, MaxOvpSegments)
    /\ ovpPc = "idle"
    /\ ovpI = 0
    /\ batchPromises = <<>>
    /\ allPOIs = <<>>
    /\ ovpLog = {}

OvpOthersUnchanged ==
    /\ UNCHANGED segVars
    /\ UNCHANGED poiVars
    /\ UNCHANGED geoVars
    /\ UNCHANGED nomVars
    /\ UNCHANGED grpVars
    /\ UNCHANGED loopVars
    /\ UNCHANGED osrmVars

\* the call, up to the first await Promise.all (or the return of [])
FetchPOIsForSegmentsCall ==
    /\ ovpPc = "idle"
    /\ IF Len(segmentBounds) = 0
       THEN ovpPc' = "done" /\ UNCHANGED batchPromises
       ELSE ovpPc' = "batch" /\ batchPromises' = launchOverpassBatch(segmentBounds, 0)
    /\ UNCHANGED <<segmentBounds, ovpI, allPOIs, ovpLog>>
    /\ OvpOthersUnchanged

\* axios.post of one segment settles: fetchPOIsInBounds returns the POIs of
\* the response, or [] from its catch
FetchPOIsInBoundsSettles ==
    /\ ovpPc = "batch"
    /\ \E k \in DOMAIN batchPromises :
         /\ batchPromises[k].st = "pending"
         /\ \E failed \in BOOLEAN :
              \E elements \in IF failed THEN {<<>>}
                              ELSE OverpassAnswers(segmentBounds[ovpI + k]) :
                 LET poiList == IF failed THEN <<>> ELSE poisOfResponse(elements)
                 IN  /\ batchPromises' = settle(batchPromises, k, poiList)
                     /\ ovpLog' = ovpLog \cup {[segmentIdx |-> ovpI + k - 1,
                                                failed |-> failed, pois |-> poiList]}
    /\ UNCHANGED <<segmentBounds, ovpPc, ovpI, allPOIs>>
    /\ OvpOthersUnchanged

\* await Promise.all(batchPromises) resumes: the batch's results are pushed,
\* then the pause before the next batch or the return
OverpassBatchResolved ==
    /\ ovpPc = "batch"
    /\ \A k \in DOMAIN batchPromises : batchPromises[k].st = "fulfilled"
    /\ allPOIs' = allPOIs \o [k \in DOMAIN batchPromises |-> batchPromises[k].value]
    /\ ovpPc' = IF ovpI + overpassBatchSize < Len(segmentBounds) THEN "pause" ELSE "done"
    /\ UNCHANGED <<segmentBounds, ovpI, batchPromises, ovpLog>>
    /\ OvpOthersUnchanged

\* the 1 second pause is over: the next batch is launched
OverpassPauseOver ==
    /\ ovpPc = "pause"
    /\ ovpI' = ovpI + overpassBatchSize
    /\ batchPromises' = launchOverpassBatch(segmentBounds, ovpI + overpassBatchSize)
    /\ ovpPc' = "batch"
    /\ UNCHANGED <<segmentBounds, allPOIs, ovpLog>>
    /\ OvpOthersUnchanged

OvpNext ==
    \/ FetchPOIsForSegmentsCall
    \/ FetchPOIsInBoundsSettles
    \/ OverpassBatchResolved
    \/ OverpassPauseOver

SpecOvp == OvpInit /\ [][OvpNext]_vars

\* C17: fetchPOIsForSegments returns one POI list per input bounds, the
\* list at index i being the one fetched for segmentBounds[i] whatever the
\* order in which the requests settled; a failed query gives an empty list
\* at its own index.
C17_PoisAlignedWithBounds ==
    ovpPc = "done" =>
        /\ Len(allPOIs) = Len(segmentBounds)
        /\ \A i \in DOMAIN allPOIs :
              /\ \E entry \in ovpLog :
                    /\ entry.segmentIdx = i - 1
                    /\ entry.pois = allPOIs[i]
                    /\ entry.failed => allPOIs[i] = <<>>
              /\ \A n \in DOMAIN allPOIs[i] :
                    /\ allPOIs[i][n].lat = segmentBounds[i].centerLat
                    /\ allPOIs[i][n].lon = segmentBounds[i].centerLon

\* two batches over different regions, the first query failed and the
\* second one answered
C17_Witness ==
    /\ ovpPc = "done"
    /\ Len(segmentBounds) = 4
    /\ segmentBounds[1] # segmentBounds[2]
    /\ [segmentIdx |-> 0, failed |-> TRUE, pois |-> <<>>] \in ovpLog
    /\ Len(allPOIs[2]) = 2
    /\ allPOIs[2][1].priority < allPOIs[2][2].priority

(***************************************************************************)
(* processing/steps.ts: groupStepsBySegment in its two versions, run on    *)
(* the segments segmentRoute returned and the route's own steps.           *)
(***************************************************************************)
\* lon/lat within a segment's bounds (no number is within the +/-Infinity
\* bounds of a segment without coordinates)
inBounds(lon, lat, bounds) ==
    /\ bounds.finite
    /\ lon >= bounds.minLon
    /\ lon <= bounds.maxLon
    /\ lat >= bounds.minLat
    /\ lat <= bounds.maxLat

\* four times the square of findSegmentForCoordinate's score: the square of
\* the distance to the nearer end point, not multiplied when the point is in
\* bounds (score = minDist * 0.5), times 4 otherwise
scoreSquared4(lon, lat, seg) ==
    LET startSq == SqDist(lon, lat, seg.startCoord[1], seg.startCoord[2])
        endSq == SqDist(lon, lat, seg.endCoord[1], seg.endCoord[2])
        minSq == Min(startSq, endSq)
    IN  IF inBounds(lon, lat, seg.bounds) THEN minSq ELSE 4 * minSq

RECURSIVE findSegmentForCoordinateLastBest(_, _, _, _, _, _)
\* the scan with "score <= bestScore": the last of equal scores wins
findSegmentForCoordinateLastBest(lon, lat, segs, i, bestSegment, bestScore) ==
    IF i >= Len(segs) THEN bestSegment
    ELSE LET score == scoreSquared4(lon, lat, segs[i + 1])
         IN  IF bestScore = -1 \/ score <= bestScore
             THEN findSegmentForCoordinateLastBest(lon, lat, segs, i + 1, i, score)
             ELSE findSegmentForCoordinateLastBest(lon, lat, segs, i + 1, bestSegment,
                                                   bestScore)

RECURSIVE findSegmentForCoordinateFrom(_, _, _, _, _, _)
\* bestScore = -1 stands for Infinity; i and bestSegment are 0-based
findSegmentForCoordinateFrom(lon, lat, segs, i, bestSegment, bestScore) ==
    IF i >= Len(segs) THEN bestSegment
    ELSE LET score == scoreSquared4(lon, lat, segs[i + 1])
         IN  IF bestScore = -1 \/ score < bestScore
             THEN findSegmentForCoordinateFrom(lon, lat, segs, i + 1, i, score)
             ELSE findSegmentForCoordinateFrom(lon, lat, segs, i + 1, bestSegment, bestScore)

findSegmentForCoordinate(lon, lat, segs) ==
    findSegmentForCoordinateFrom(lon, lat, segs, 0, 0, -1)

\* steps.slice(start, end + 1) of a segment's stepRange
stepsOfRange(stepList, stepRange) == Slice(stepList, stepRange[1], stepRange[2] + 1)

\* processing/steps.ts: the stepRange of each segment that has one, else
\* the steps located within the segment's bounds
groupStepsBySegment(stepList, segs) ==
    [outcome |-> "returned",
     segmentSteps |->
        [k \in DOMAIN segs |->
            IF segs[k].stepRange # <<>>
            THEN stepsOfRange(stepList, segs[k].stepRange)
            ELSE SelectSeq(stepList,
                    LAMBDA step : inBounds(step.location[1], step.location[2],
                                           segs[k].bounds))]]

\* the earlier version: every segment's stepRange when the first segment has
\* one (destructuring an undefined stepRange throws a TypeError), else every
\* step pushed to the list of findSegmentForCoordinate's segment (pushing to
\* the missing list 0 of no segments throws a TypeError)
groupStepsBySegmentFirstRange(stepList, segs) ==
    IF Len(segs) > 0 /\ segs[1].stepRange # <<>>
    THEN IF \E k \in DOMAIN segs : segs[k].stepRange = <<>>
         THEN [outcome |-> "threw", segmentSteps |-> <<>>]
         ELSE [outcome |-> "returned",
               segmentSteps |-> [k \in DOMAIN segs |->
                                    stepsOfRange(stepList, segs[k].stepRange)]]
    ELSE IF Len(segs) = 0 /\ Len(stepList) > 0
         THEN [outcome |-> "threw", segmentSteps |-> <<>>]
         ELSE [outcome |-> "returned",
               segmentSteps |->
                  [k \in DOMAIN segs |->
                      SelectSeq(stepList,
                          LAMBDA step :
                              findSegmentForCoordinate(step.location[1], step.location[2],
                                                       segs) = k - 1)]]

MaxGroupSteps == 3

\* routes of at least two coordinates: round a corner, straight on, to the
\* corner and back, and pacing up and down one block
WalkedRoutes ==
    {<<<<0, 0>>, <<20, 0>>>>,
     <<<<0, 0>>, <<20, 0>>, <<20, 20>>>>,
     <<<<0, 0>>, <<20, 0>>, <<40, 0>>, <<60, 0>>>>,
     <<<<0, 0>>, <<20, 0>>, <<20, 20>>, <<20, 0>>, <<0, 0>>>>,
     <<<<0, 0>>, <<20, 0>>, <<20, 20>>, <<20, 0>>, <<20, 20>>>>}

\* the steps of a route: manoeuvres at coordinates of the route, in the
\* order in which the route passes them
AlongRouteSteps(coords) ==
    {[k \in DOMAIN idxs |-> [distance |-> 10, location |-> coords[idxs[k]],
                             geometry |-> <<>>]] :
        idxs \in {q \in SeqsUpTo(DOMAIN coords, MaxGroupSteps) :
                    \A k \in 1..(Len(q) - 1) : q[k] < q[k + 1]}}

GroupInit ==
    /\ PoiIdle
    /\ GeoIdle
    /\ NomIdle
    /\ OvpIdle
    /\ GrpIdle
    /\ LoopIdle
    /\ OsrmIdle
    /\ coordinates \in WalkedRoutes
    /\ \E list \in AlongRouteSteps(coordinates) : steps = [present |-> TRUE, list |-> list]
    /\ op = "idle"
    /\ param = 0
    /\ outcome = "none"
    /\ segments = <<>>

GroupOthersUnchanged ==
    /\ UNCHANGED segVars
    /\ UNCHANGED poiVars
    /\ UNCHANGED geoVars
    /\ UNCHANGED nomVars
    /\ UNCHANGED ovpVars
    /\ UNCHANGED loopVars
    /\ UNCHANGED osrmVars

\* groupStepsBySegment(steps, segments) of processing/steps.ts
GroupStepsBySegment ==
    /\ outcome = "returned"
    /\ steps.present
    /\ grouping.fn = "none"
    /\ LET grouped == groupStepsBySegment(steps.list, segments)
       IN  grouping' = [fn |-> "perSegment", outcome |-> grouped.outcome,
                        segmentSteps |-> grouped.segmentSteps]
    /\ GroupOthersUnchanged

\* groupStepsBySegment(steps, segments) of the earlier version
GroupStepsBySegmentFirstRange ==
    /\ outcome = "returned"
    /\ steps.present
    /\ grouping.fn = "none"
    /\ LET grouped == groupStepsBySegmentFirstRange(steps.list, segments)
       IN  grouping' = [fn |-> "firstRange", outcome |-> grouped.outcome,
                        segmentSteps |-> grouped.segmentSteps]
    /\ GroupOthersUnchanged

GroupNext ==
    \/ SegmentRouteDistanceMode
    \/ SegmentRouteCountMode
    \/ SegmentRouteCountOnly
    \/ SegmentRouteStepGrouped
    \/ GroupStepsBySegment
    \/ GroupStepsBySegmentFirstRange

SpecGroup == GroupInit /\ [][GroupNext]_vars

\* the coordinate index at which the k-th segment of a distance-mode result
\* starts: each segment starts on the last coordinate of the one before
SegmentStartIdx(k) ==
    SumSeq([j \in 1..(k - 1) |-> Len(segments[j].coordinates) - 1])

\* the steps (1-based) whose nearest coordinate index lies in the k-th
\* segment's coordinate-index range
StepsNearestIn(k) ==
    LET startIdx == SegmentStartIdx(k)
        endIdx == startIdx + Len(segments[k].coordinates) - 1
    IN  {s \in DOMAIN steps.list :
            LET coordIdx == findClosestCoordinate(coordinates, steps.list[s].location)
            IN  coordIdx >= startIdx /\ coordIdx <= endIdx}

\* C18: in distance mode a step lies within a segment's stepRange exactly
\* when its nearest coordinate index lies within the segment's
\* coordinate-index range; a segment with no such step has no stepRange.
C18_StepRangeIffNearestInSegment ==
    (op = "distance" /\ steps.present) =>
        \A k \in DOMAIN segments :
            LET range == segments[k].stepRange
            IN  /\ StepsNearestIn(k) = {} => range = <<>>
                /\ \A s \in DOMAIN steps.list :
                      (range # <<>> /\ range[1] <= s - 1 /\ s - 1 <= range[2])
                          <=> s \in StepsNearestIn(k)

RECURSIVE Flatten(_)
Flatten(lists) == IF Len(lists) = 0 THEN <<>> ELSE Head(lists) \o Flatten(Tail(lists))

\* C19: for a policy that takes a non-empty step list, the per-segment
\* lists of groupStepsBySegment concatenate to the original step list.
C19_StepsListedOnce ==
    (/\ op \in {"distance", "count", "steps"}
     /\ Len(steps.list) > 0
     /\ grouping.outcome = "returned") =>
        Flatten(grouping.segmentSteps) = steps.list

\* C20: groupStepsBySegment returns, with one list per segment, for every
\* segment list segmentRoute produced.
C20_GroupingNeverFails ==
    grouping.fn # "none" =>
        /\ grouping.outcome = "returned"
        /\ Len(grouping.segmentSteps) = Len(segments)

(***************************************************************************)
(* Continuity of the segments outside distance mode.                       *)
(***************************************************************************)
\* adjacent segments share their end/start coordinate
AdjacentSegmentsContinuous ==
    \A i \in 1..(Len(segments) - 1) :
        segments[i].endCoord = segments[i + 1].startCoord

\* the fixed-count policies: they cut the coordinate list at shared indices
FixedCountContinuous ==
    (op \in {"count", "countOnly"} /\ outcome = "returned") =>
        AdjacentSegmentsContinuous

\* C21: for fixed-count and step-grouped segmentation every segment ends on
\* the coordinate on which the next one starts.
C21_ContinuousOutsideDistanceMode ==
    (op \in {"count", "countOnly", "steps"} /\ outcome = "returned") =>
        AdjacentSegmentsContinuous

(***************************************************************************)
(* segmentBySteps, one iteration of its while loop at a time.              *)
(***************************************************************************)
MaxLoopSteps == 4

\* "Calculate how many steps go in this segment", without the remaining-steps cap
loopStepCountUncapped(list, stepsPerSegment, stepIdx) == stepsPerSegment

\* "Calculate how many steps go in this segment"
loopStepCount(list, stepsPerSegment, stepIdx) ==
    Min(stepsPerSegment, Len(list) - stepIdx)

\* the segment one iteration of the loop pushes
loopSegment(list, stepsPerSegment, stepIdx, segmentIndex) ==
    LET startStepIdx == stepIdx
        endStepIdx == stepIdx + loopStepCount(list, stepsPerSegment, stepIdx) - 1
        segmentSteps == Slice(list, startStepIdx, endStepIdx + 1)
        uniqueCoords ==
            ensureStartEnd(uniqueConsecutive(concatStepCoordinates(segmentSteps)),
                           segmentSteps)
        stepIndices == [k \in 1..(endStepIdx - startStepIdx + 1) |-> startStepIdx + k - 1]
    IN  RouteSegment(segmentIndex, uniqueCoords, stepsDistance(segmentSteps, uniqueCoords),
                     <<startStepIdx, endStepIdx>>, stepIndices)

\* non-empty step lists, without geometry as extractSteps builds them
LoopStepLists ==
    {l \in SeqsUpTo(PlainSteps, MaxLoopSteps) : Len(l) > 0}

\* segmentBySteps(steps, stepsPerSegment) has been entered: stepIdx = 0,
\* segmentIndex = 1, no segment yet
ByStepsInit ==
    /\ SegOff
    /\ PoiIdle
    /\ GeoIdle
    /\ NomIdle
    /\ OvpIdle
    /\ GrpIdle
    /\ OsrmIdle
    /\ \E list \in LoopStepLists, stepsPerSegment \in 1..(MaxStepsPerSegment + 1) :
          bySteps = [pc |-> "loop", steps |-> list, stepsPerSegment |-> stepsPerSegment,
                     stepIdx |-> 0, segmentIndex |-> 1, segments |-> <<>>]

ByStepsOthersUnchanged ==
    /\ UNCHANGED segVars
    /\ UNCHANGED poiVars
    /\ UNCHANGED geoVars
    /\ UNCHANGED nomVars
    /\ UNCHANGED ovpVars
    /\ UNCHANGED grpVars
    /\ UNCHANGED osrmVars

\* one pass through the body of "while (stepIdx < steps.length)"
SegmentByStepsIteration ==
    /\ bySteps.pc = "loop"
    /\ bySteps.stepIdx < Len(bySteps.steps)
    /\ bySteps' = [bySteps EXCEPT
          !.segments = Append(@, loopSegment(bySteps.steps, bySteps.stepsPerSegment,
                                             bySteps.stepIdx, bySteps.segmentIndex)),
          !.stepIdx = @ + loopStepCount(bySteps.steps, bySteps.stepsPerSegment,
                                        bySteps.stepIdx),
          !.segmentIndex = @ + 1]
    /\ ByStepsOthersUnchanged

\* the loop condition fails: "return segments"
SegmentByStepsReturn ==
    /\ bySteps.pc = "loop"
    /\ bySteps.stepIdx >= Len(bySteps.steps)
    /\ bySteps' = [bySteps EXCEPT !.pc = "done"]
    /\ ByStepsOthersUnchanged

ByStepsNext ==
    \/ SegmentByStepsIteration
    \/ SegmentByStepsReturn

SpecBySteps == ByStepsInit /\ [][ByStepsNext]_vars

\* the loop is synchronous code: an enabled iteration or return is executed
SpecByStepsFair == SpecBySteps /\ WF_vars(ByStepsNext)

\* the blocks of stepsPerSegment steps emitted so far
BlocksSoFar ==
    LET n == Len(bySteps.steps)
        per == bySteps.stepsPerSegment
    IN  /\ bySteps.stepIdx = Min(Len(bySteps.segments) * per, n)
        /\ \A k \in DOMAIN bySteps.segments :
              /\ bySteps.segments[k].index = k
              /\ bySteps.segments[k].stepRange =
                     <<(k - 1) * per, Min(k * per, n) - 1>>

\* the call has returned the blocks of all the steps
AllBlocksReturned ==
    bySteps.pc = "done" =>
        /\ Len(bySteps.segments) = CeilDiv(Len(bySteps.steps), bySteps.stepsPerSegment)
        /\ bySteps.segments = segmentBySteps(bySteps.steps, bySteps.stepsPerSegment)

\* every iteration moves stepIdx forward
StepIdxIncreases ==
    SegmentByStepsIteration => bySteps'.stepIdx > bySteps.stepIdx

\* C22: segmentBySteps on a non-empty step list with stepsPerSegment >= 1
\* returns; it returns ceil(n / stepsPerSegment) segments with indices 1..m
\* whose stepRanges are the consecutive blocks of stepsPerSegment steps; and
\* stepIdx grows on every iteration.
C22_StepBlocksAndTermination ==
    /\ [](BlocksSoFar /\ AllBlocksReturned)
    /\ [][StepIdxIncreases]_vars
    /\ <>(bySteps.pc = "done")

C22_Witness ==
    /\ bySteps.pc = "done"
    /\ Len(bySteps.segments) >= 2
    /\ Len(bySteps.steps) % bySteps.stepsPerSegment # 0

(***************************************************************************)
(* The greedy label search.                                                *)
(***************************************************************************)
\* the search order: offsets 14, 22, 30; for each offset the y-shifts 0, -12,
\* 12, -24, 24; for each shift the preferred side (t = 1), then the opposite
SearchRank(o, s, t) == (o - 1) * 10 + (s - 1) * 2 + t

SearchPosition(dotX, dotY, dir, o, s, t) ==
    [x |-> dotX + (IF t = 1 THEN dir ELSE -dir) * Px(<<14, 22, 30>>[o]),
     y |-> dotY + Px(<<0, -12, 12, -24, 24>>[s])]

\* the preferred side of the k-th marker's dot: +1 right, -1 left
PreferredDir(k) ==
    IF getPOISideOfRoute(markers[k].dotX, markers[k].dotY, svgRouteCoords, svgBounds,
                         segmentWidth, segmentHeight) = "right"
    THEN 1 ELSE -1

\* the four validity conditions for the k-th label at position pos
FourConditions(pos, k) ==
    /\ pos.x >= Px(20) /\ pos.x <= Px(segmentWidth - 20)
    /\ pos.y >= Px(20) /\ pos.y <= Px(segmentHeight - 20)
    /\ ~distToRouteLess(pos.x, pos.y,
                        routeSvg(svgRouteCoords, svgBounds, segmentWidth, segmentHeight), 10)
    /\ SqDist(pos.x, pos.y, svgStartX, svgStartY) >= Px(18) * Px(18)
    /\ SqDist(pos.x, pos.y, svgEndX, svgEndY) >= Px(18) * Px(18)
    /\ \A i \in 1..(k - 1) : Separated(usedLabelPositions[i], pos)

\* the k-th label is the candidate of rank r of the search order
PlacedAtRank(k, r) ==
    \E o \in 1..3, s \in 1..5, t \in 1..2 :
        /\ SearchRank(o, s, t) = r
        /\ SearchPosition(markers[k].dotX, markers[k].dotY, PreferredDir(k), o, s, t)
               = [x |-> markers[k].labelX, y |-> markers[k].labelY]

generateOnePOIMarker(coords, poi, width, height) ==
    LET bounds == adjustBoundsForAspectRatio(calculateBounds(coords), width, height)
        routeCoords == sampleCoordinates(coords, maxSegmentPoints)
        startCoord == coords[1]
        endCoord == coords[Len(coords)]
        xKind == toSvgXKind(poi[1], bounds)
        yKind == toSvgYKind(poi[2], bounds)
        noMarker == [outcome |-> "none"]
    IN  IF ~minDistanceToRouteLess(poi[1], poi[2], routeCoords, MAX_DISTANCE)
        THEN noMarker
        ELSE IF xKind = "number" /\ yKind = "number"
        THEN IF outsideMap(toSvgX(poi[1], bounds, width), toSvgY(poi[2], bounds, height),
                           width, height)
             THEN noMarker
             ELSE LET m == placeLabel(poi, bounds, width, height, routeCoords,
                                      toSvgX(startCoord[1], bounds, width),
                                      toSvgY(startCoord[2], bounds, height),
                                      toSvgX(endCoord[1], bounds, width),
                                      toSvgY(endCoord[2], bounds, height), <<>>)
                      side == getPOISideOfRoute(m.dotX, m.dotY, routeCoords, bounds,
                                                width, height)
                  IN  [outcome |-> "placed", kind |-> "number", found |-> m.found,
                       dir |-> IF side = "right" THEN 1 ELSE -1,
                       dotX |-> m.dotX, dotY |-> m.dotY,
                       labelX |-> m.labelX, labelY |-> m.labelY]
        ELSE IF xKind = "NaN" /\ yKind = "NaN"
        THEN [outcome |-> "placed", kind |-> "NaN", found |-> TRUE, dir |-> 1,
              dotX |-> 0, dotY |-> 0, labelX |-> 0, labelY |-> 0]
        ELSE noMarker

\* a route whose padded range is 680 u: a pixel of the viewports below is a
\* whole number of u
LongDiagonalRoute == <<<<-200, -200>>, <<0, 0>>, <<200, 200>>>>

\* segments: the long diagonal, and a segment whose coordinates coincide
LabelRoutes == {LongDiagonalRoute, <<<<0, 0>>, <<0, 0>>>>}

LabelPois == {<<0, 0>>, <<200, 200>>, <<220, 140>>, <<-260, -200>>, <<0, 90>>,
              <<60, 0>>, <<-40, 20>>}

\* the smallest viewport with a margin box, a wide one, a small square one
\* and the segment map's
LabelViewports == {<<40, 40>>, <<80, 40>>, <<60, 60>>, <<120, 120>>}

GenerateOnePOIMarker ==
    /\ call.fn = "none"
    /\ \E coords \in LabelRoutes, poi \in LabelPois, viewport \in LabelViewports :
          /\ call' = [fn |-> "marker", coordinates |-> coords, poi |-> poi,
                      width |-> viewport[1], height |-> viewport[2]]
          /\ result' = generateOnePOIMarker(coords, poi, viewport[1], viewport[2])
    /\ UNCHANGED segVars
    /\ UNCHANGED poiVars
    /\ UNCHANGED nomVars
    /\ UNCHANGED ovpVars
    /\ UNCHANGED grpVars
    /\ UNCHANGED loopVars
    /\ UNCHANGED osrmVars

\* the label of the marker call lies inside the margin box
LabelInsideMargin ==
    /\ result.kind = "number"
    /\ result.labelX >= Px(20) /\ result.labelX <= Px(call.width - 20)
    /\ result.labelY >= Px(20) /\ result.labelY <= Px(call.height - 20)

\* the fallback position: the dot moved 14 px to the preferred side, clamped
FallbackPosition ==
    /\ result.labelX = Max(Px(20), Min(Px(call.width - 20), result.dotX + result.dir * Px(14)))
    /\ result.labelY = Max(Px(20), Min(Px(call.height - 20), result.dotY))

\* labels of POIs whose projection is a number lie inside the margin box
ProjectedLabelsInsideMargin ==
    (call.fn = "marker" /\ result.outcome = "placed" /\ result.kind = "number") =>
        /\ LabelInsideMargin
        /\ ~result.found => FallbackPosition

\* C24: for a viewport of at least 40 x 40 every label position, found by
\* the search or by the fallback, lies inside the margin box, and the
\* fallback position is the clamped dot offset to the preferred side.
C24_LabelsInsideMargin ==
    (/\ call.fn = "marker"
     /\ result.outcome = "placed"
     /\ call.width >= 40 /\ call.height >= 40) =>
        /\ LabelInsideMargin
        /\ ~result.found => FallbackPosition

(***************************************************************************)
(* findSegmentForCoordinate called on its own.                             *)
(***************************************************************************)
\* segment lists as segmentRoute returns them for the walked routes
FindSegmentLists ==
    {segmentByDistance(route, targetDistance, [present |-> FALSE, list |-> <<>>]) :
        route \in WalkedRoutes, targetDistance \in {25, 45}}

\* points on and beside the routes
FindPoints == {<<lon, lat>> : lon \in {-20, 0, 10, 20, 40, 70}, lat \in {-10, 0, 20, 30}}

FindSegmentForCoordinate ==
    /\ call.fn = "none"
    /\ \E segs \in FindSegmentLists, point \in FindPoints :
          /\ call' = [fn |-> "findSegmentForCoordinate", segments |-> segs, point |-> point]
          /\ result' = findSegmentForCoordinate(point[1], point[2], segs)
    /\ UNCHANGED segVars
    /\ UNCHANGED poiVars
    /\ UNCHANGED nomVars
    /\ UNCHANGED ovpVars
    /\ UNCHANGED grpVars
    /\ UNCHANGED loopVars
    /\ UNCHANGED osrmVars

\* the point of the call lies inside the bounds of the call's k-th segment
CallPointInBounds(k) ==
    LET b == call.segments[k].bounds
    IN  /\ call.point[1] >= b.minLon /\ call.point[1] <= b.maxLon
        /\ call.point[2] >= b.minLat /\ call.point[2] <= b.maxLat

\* the squared distance from the point of the call to the nearer end of the
\* call's k-th segment
CallNearerEndSquared(k) ==
    LET seg == call.segments[k]
        toStart == SqDist(call.point[1], call.point[2], seg.startCoord[1], seg.startCoord[2])
        toEnd == SqDist(call.point[1], call.point[2], seg.endCoord[1], seg.endCoord[2])
    IN  IF toStart <= toEnd THEN toStart ELSE toEnd

\* score(j) < score(k), the score being the distance to the nearer end,
\* halved inside the bounds: compared as four times the squares, so that a
\* distance that is not halved counts four times its square
ScoreBelow(j, k) ==
    CallNearerEndSquared(j) * (IF CallPointInBounds(j) THEN 1 ELSE 4)
        < CallNearerEndSquared(k) * (IF CallPointInBounds(k) THEN 1 ELSE 4)

\* C25: on a non-empty segment list findSegmentForCoordinate returns a
\* 0-based index of a segment of minimal score, the lowest such index.
C25_FirstMinimalScore ==
    (call.fn = "findSegmentForCoordinate" /\ Len(call.segments) > 0) =>
        /\ result \in 0..(Len(call.segments) - 1)
        /\ \A k \in DOMAIN call.segments : ~ScoreBelow(k, result + 1)
        /\ \A k \in 1..result : ScoreBelow(result + 1, k)

\* a tie between two segments of minimal score, and a point whose segment
\* is decided by the bounds discount
C25_Witness ==
    /\ call.fn = "findSegmentForCoordinate"
    /\ \E k \in DOMAIN call.segments :
          /\ k > result + 1
          /\ ~ScoreBelow(result + 1, k)

\* C26: sampleCoordinates returns at most maxPoints coordinates, for every
\* input length and every maxPoints >= 1.
C26_SampleAtMostMaxPoints ==
    (call.fn = "sampleCoordinates" /\ call.maxPoints >= 1) =>
        Len(result) <= call.maxPoints

\* the Bounds value calculateBounds builds when its loop never runs:
\* minLat = minLon = Infinity, maxLat = maxLon = -Infinity, centre NaN
BoundsOfInfinities(bounds) == ~bounds.finite

\* C27: on an empty coordinate set calculateBounds does not return a
\* Bounds value built from +/-Infinity extremes and a NaN centre.
C27_EmptyBoundsFailFast ==
    (call.fn = "calculateBounds" /\ Len(call.coordinates) = 0) =>
        ~BoundsOfInfinities(result)

(***************************************************************************)
(* adjustBoundsForAspectRatio called on its own.                           *)
(***************************************************************************)
\* regions with positive latitude and longitude ranges, centred on the
\* equator; the ranges are multiples of 24 so that every quotient of
\* adjustBoundsForAspectRatio with the viewports below is a whole number
AspectRegions ==
    {[finite |-> TRUE,
      minLat |-> 0 - halfLat, maxLat |-> halfLat,
      minLon |-> centerLon - halfLon, maxLon |-> centerLon + halfLon,
      centerLat |-> 0, centerLon |-> centerLon] :
        halfLat \in {12, 24, 36}, halfLon \in {12, 24, 36, 72}, centerLon \in {0, 100}}

\* viewports of aspect 1, 2, 1/2 and 3
AspectViewports == {<<40, 40>>, <<80, 40>>, <<40, 80>>, <<120, 40>>}

AdjustBoundsForAspectRatio ==
    /\ call.fn = "none"
    /\ \E bounds \in AspectRegions, viewport \in AspectViewports :
          /\ call' = [fn |-> "adjustBoundsForAspectRatio", bounds |-> bounds,
                      viewportWidth |-> viewport[1], viewportHeight |-> viewport[2]]
          /\ result' = adjustBoundsForAspectRatio(bounds, viewport[1], viewport[2])
    /\ UNCHANGED segVars
    /\ UNCHANGED poiVars
    /\ UNCHANGED nomVars
    /\ UNCHANGED ovpVars
    /\ UNCHANGED grpVars
    /\ UNCHANGED loopVars
    /\ UNCHANGED osrmVars

LatRangeOf(bounds) == bounds.maxLat - bounds.minLat

LonRangeOf(bounds) == bounds.maxLon - bounds.minLon

\* cos(centerLat)-corrected longitude range / latitude range of the region
\* equals width / height, cross-multiplied
AspectMatches(bounds, width, height) ==
    LonRangeOf(bounds) * latCorrection(bounds.centerLat) * height
        = LatRangeOf(bounds) * width

SameCenter(input, output) ==
    /\ output.centerLat = input.centerLat
    /\ output.centerLon = input.centerLon
    /\ output.minLat + output.maxLat = input.minLat + input.maxLat
    /\ output.minLon + output.maxLon = input.minLon + input.maxLon

ContainsRegion(input, output) ==
    /\ output.minLat <= input.minLat
    /\ output.maxLat >= input.maxLat
    /\ output.minLon <= input.minLon
    /\ output.maxLon >= input.maxLon

OsrmDistances == {0, 335, 670, 1340}

OsrmDurations == {0, 6700, 16750, 33500, 67000}

\* the codes OSRM answers with when it has no route
OsrmErrorCodes == {"NoRoute", "NoSegment", "InvalidQuery"}

\* what awaiting axios.get gives: a rejection (network error, timeout, HTTP
\* error status), or a response whose data is an error code without routes
\* or 'Ok' with a route
OsrmAnswers(profile) ==
    {[kind |-> "throws", code |-> "", routes |-> <<>>]}
        \cup {[kind |-> "response", code |-> code, routes |-> <<>>] : code \in OsrmErrorCodes}
        \cup {[kind |-> "response", code |-> "Ok",
               routes |-> <<[profile |-> profile, distance |-> distance,
                             duration |-> duration]>>] :
                 distance \in OsrmDistances, duration \in OsrmDurations}

NoAnswer == [kind |-> "none", code |-> "", routes |-> <<>>]

\* expectedDuration = distance / walkingSpeedMps; the duration is replaced
\* when route.duration < expectedDuration * 0.5
adjustRouteDuration(route) ==
    LET expectedDuration == calculateWalkingDuration(route.distance)
    IN  IF 2 * route.duration < expectedDuration
        THEN [route EXCEPT !.duration = expectedDuration]
        ELSE route

\* fetchWalkingRoute with the fallback requested whatever the foot profile
\* answers
fetchWalkingRouteEagerFallback(state, answer) ==
    [state EXCEPT !.pc = "fallback",
                  !.footAnswer = answer,
                  !.requests = Append(state.requests, "driving")]

\* fetchWalkingRoute from the foot profile's answer on: the route of an 'Ok'
\* response is returned; after any other response, or in the catch, it goes
\* on into fetchFallbackRoute, up to that function's await
fetchWalkingRouteResumed(state, answer) ==
    IF answer.kind = "response" /\ answer.code = "Ok"
    THEN [state EXCEPT !.pc = "returned",
                       !.footAnswer = answer,
                       !.returned = adjustRouteDuration(answer.routes[1])]
    ELSE [state EXCEPT !.pc = "fallback",
                       !.footAnswer = answer,
                       !.requests = Append(state.requests, "driving")]

\* fetchFallbackRoute from its answer on: a rejection propagates, a code
\* other than 'Ok' throws "OSRM error", an 'Ok' route gets the walking
\* duration
fetchFallbackRouteResumed(state, answer) ==
    IF answer.kind = "response" /\ answer.code = "Ok"
    THEN [state EXCEPT !.pc = "returned",
                       !.fallbackAnswer = answer,
                       !.returned = [answer.routes[1] EXCEPT !.duration =
                                        calculateWalkingDuration(answer.routes[1].distance)]]
    ELSE [state EXCEPT !.pc = "failed",
                       !.fallbackAnswer = answer]

OsrmInit ==
    /\ SegOff
    /\ PoiIdle
    /\ GeoIdle
    /\ NomIdle
    /\ OvpIdle
    /\ GrpIdle
    /\ LoopIdle
    /\ osrm = [pc |-> "idle", requests |-> <<>>, footAnswer |-> NoAnswer,
               fallbackAnswer |-> NoAnswer, returned |-> <<>>]

OsrmOthersUnchanged ==
    /\ UNCHANGED segVars
    /\ UNCHANGED poiVars
    /\ UNCHANGED geoVars
    /\ UNCHANGED nomVars
    /\ UNCHANGED ovpVars
    /\ UNCHANGED grpVars
    /\ UNCHANGED loopVars

\* the call, up to the await of the foot-profile request
FetchWalkingRoute ==
    /\ osrm.pc = "idle"
    /\ osrm' = [osrm EXCEPT !.pc = "foot", !.requests = Append(osrm.requests, "foot")]
    /\ OsrmOthersUnchanged

\* the foot-profile request settles
FootRequestSettles ==
    /\ osrm.pc = "foot"
    /\ \E answer \in OsrmAnswers("foot") :
          osrm' = fetchWalkingRouteResumed(osrm, answer)
    /\ OsrmOthersUnchanged

\* the fallback request settles
FallbackRequestSettles ==
    /\ osrm.pc = "fallback"
    /\ \E answer \in OsrmAnswers("driving") :
          osrm' = fetchFallbackRouteResumed(osrm, answer)
    /\ OsrmOthersUnchanged

OsrmNext ==
    \/ FetchWalkingRoute
    \/ FootRequestSettles
    \/ FallbackRequestSettles

SpecOsrm == OsrmInit /\ [][OsrmNext]_vars

AnsweredOk(answer) == answer.kind = "response" /\ answer.code = "Ok"

\* the request failed: it threw, or its response has a code other than 'Ok'
AnsweredNotOk(answer) ==
    \/ answer.kind = "throws"
    \/ answer.kind = "response" /\ answer.code # "Ok"

FallbackRequested == \E i \in DOMAIN osrm.requests : osrm.requests[i] = "driving"

\* the fallback request goes out in the step in which the foot request fails
FallbackFollowsFootFailure ==
    (~FallbackRequested /\ FallbackRequested') =>
        /\ osrm.pc = "foot"
        /\ AnsweredNotOk(osrm'.footAnswer)
        /\ osrm'.requests = <<"foot", "driving">>

FootOkReturnsFootRoute ==
    AnsweredOk(osrm.footAnswer) =>
        /\ ~FallbackRequested
        /\ osrm.pc = "returned"
        /\ osrm.returned.profile = "foot"
        /\ osrm.returned.distance = osrm.footAnswer.routes[1].distance

FallbackFailureFails ==
    AnsweredNotOk(osrm.fallbackAnswer) =>
        /\ osrm.pc = "failed"
        /\ osrm.returned = <<>>

\* C30: fetchWalkingRoute requests the fallback profile only after the foot
\* request has thrown or answered a code other than 'Ok'; after an 'Ok' foot
\* answer no fallback request is made and the foot route is returned; when
\* the fallback also throws or answers a code other than 'Ok' the call fails
\* and returns no route.
C30_FallbackOnlyAfterFootFailure ==
    /\ [](FallbackRequested => AnsweredNotOk(osrm.footAnswer))
    /\ [][FallbackFollowsFootFailure]_vars
    /\ [](FootOkReturnsFootRoute /\ FallbackFailureFails)

\* the foot profile has no route, the driving profile is asked and has none
\* either: the call has failed
C30_Witness ==
    /\ osrm.pc = "failed"
    /\ osrm.requests = <<"foot", "driving">>
    /\ osrm.footAnswer.kind = "response"
    /\ osrm.footAnswer.code = "NoRoute"
    /\ osrm.fallbackAnswer.kind = "throws"

(***************************************************************************)
(* The helper calls together.                                              *)
(***************************************************************************)
GeoNext ==
    \/ AdjustBoundsForAspectRatio
    \/ GenerateOnePOIMarker
    \/ FindSegmentForCoordinate
    \/ ProjectPoint
    \/ CalculateBounds
    \/ SampleCoordinates
    \/ CalculateZoomLevel

SpecGeo == GeoInit /\ [][GeoNext]_vars

====
